---------------------------- MODULE Spec2Model ----------------------------
(***************************************************************************)
(* A model of the data structures of common-data-structures: the           *)
(* BinaryMinHeap, the Queue, the Graph, the Trie, the SinglyLinkedList,    *)
(* the DoublyLinkedList, the two binary search trees (BinarySearchTree and *)
(* BinaryTree) and the Tree, each as a state machine whose actions are the *)
(* public operations of the class; and the two path queries of the Graph   *)
(* once more as machines that take one step of the call at a time.         *)
(*                                                                         *)
(* JavaScript values that can meet in one comparison (a number, null, an   *)
(* object reference) are tagged records, so that the strict equality of a  *)
(* number and an object is computed (and is FALSE), never assumed.         *)
(***************************************************************************)
EXTENDS Integers, Sequences, FiniteSets, Bags, TLC

VARIABLES
  items,        \* BinaryMinHeap: this.items
  heapCall,     \* BinaryMinHeap: the last call, [op, res]
  heapDrain,    \* BinaryMinHeap: what extractMin returned after the inserts
  nodes,        \* Graph: this.nodes, a sequence of references to Node objects
  graphHeap,    \* Graph: the Node objects ever created, id -> [value, adjacent]
  graphCall,    \* Graph: the last call, [op, res]
  root,         \* Trie: this.root, a Node [children, isTerminating]
  trieCall,     \* Trie: the last call, [op, word, res]
  trieWords,    \* Trie: the words added and not removed since
  sllHead,      \* SinglyLinkedList: this.head, null or a reference
  sllHeap,      \* SinglyLinkedList: the Node objects, id -> [value, next]
  sllCall,      \* SinglyLinkedList: the last call, [op, args, res]
  dllHead,      \* DoublyLinkedList: this.head, null or a reference
  dllHeap,      \* DoublyLinkedList: the Node objects, id -> [value, prev, next]
  dllCall,      \* DoublyLinkedList: the last call, [op, args, res]
  bstRoot,      \* BinarySearchTree: this.root, null or a Node
  bstCall,      \* BinarySearchTree: the last call, [op, args, res]
  btRoot,       \* BinaryTree: this.root, null or a Node
  btCall,       \* BinaryTree: the last call, [op, args, res]
  treeRoot,     \* Tree: this.root, null or a Node [value, children]
  treeCall,     \* Tree: the last call, [op, args, res]
  queueItems,   \* Queue: this.queue
  queueCall,    \* Queue: the last call, [op, args, res]
  queueAdded,   \* Queue: the values added since construction or removeAll
  queueReturned, \* Queue: the values remove() has returned since then
  pathPc,       \* Graph, by steps: the path query that is running, or "idle"
  dfsStack,     \* Graph, by steps: the frames of hasPathDFS and #hasPathDFS
  bfsQueue,     \* Graph, by steps: the queue of hasPathBFS
  bfsVisited,   \* Graph, by steps: visitedNodes of hasPathBFS
  bfsDestination, \* Graph, by steps: destinationNode of hasPathBFS
  hashTable,    \* HashTable: this.hashTable, an array of buckets
  capacity,     \* HashTable: this.capacity
  hashCall,     \* HashTable and sumDigits: the last call, [op, args, res]
  givenNumber,  \* sumDigits, by steps: givenNumber
  sum           \* sumDigits, by steps: sum

heapVars == <<items, heapCall, heapDrain>>
graphVars == <<nodes, graphHeap, graphCall>>
trieVars == <<root, trieCall, trieWords>>
sllVars == <<sllHead, sllHeap, sllCall>>
dllVars == <<dllHead, dllHeap, dllCall>>
bstVars == <<bstRoot, bstCall>>
btVars == <<btRoot, btCall>>
treeVars == <<treeRoot, treeCall>>
queueVars == <<queueItems, queueCall, queueAdded, queueReturned>>
pathVars == <<pathPc, dfsStack, bfsQueue, bfsVisited, bfsDestination>>
hashVars == <<hashTable, capacity, hashCall, givenNumber, sum>>
vars ==
  <<items, heapCall, heapDrain, nodes, graphHeap, graphCall, root, trieCall, trieWords,
    sllHead, sllHeap, sllCall, dllHead, dllHeap, dllCall,
    bstRoot, bstCall, btRoot, btCall, treeRoot, treeCall,
    queueItems, queueCall, queueAdded, queueReturned,
    pathPc, dfsStack, bfsQueue, bfsVisited, bfsDestination,
    hashTable, capacity, hashCall, givenNumber, sum>>

\* What an operation of one class leaves alone: the other classes' objects.
heapFrame ==
  UNCHANGED <<graphVars, trieVars, sllVars, dllVars, bstVars,
              btVars, treeVars, queueVars, pathVars,
              hashVars>>
graphFrame ==
  UNCHANGED <<heapVars, trieVars, sllVars, dllVars, bstVars,
              btVars, treeVars, queueVars, pathVars,
              hashVars>>
trieFrame ==
  UNCHANGED <<heapVars, graphVars, sllVars, dllVars, bstVars,
              btVars, treeVars, queueVars, pathVars,
              hashVars>>
sllFrame ==
  UNCHANGED <<heapVars, graphVars, trieVars, dllVars, bstVars,
              btVars, treeVars, queueVars, pathVars,
              hashVars>>
dllFrame ==
  UNCHANGED <<heapVars, graphVars, trieVars, sllVars, bstVars,
              btVars, treeVars, queueVars, pathVars,
              hashVars>>
bstFrame ==
  UNCHANGED <<heapVars, graphVars, trieVars, sllVars, dllVars,
              btVars, treeVars, queueVars, pathVars,
              hashVars>>
btFrame ==
  UNCHANGED <<heapVars, graphVars, trieVars, sllVars, dllVars,
              bstVars, treeVars, queueVars, pathVars,
              hashVars>>
treeFrame ==
  UNCHANGED <<heapVars, graphVars, trieVars, sllVars, dllVars,
              bstVars, btVars, queueVars, pathVars,
              hashVars>>
queueFrame ==
  UNCHANGED <<heapVars, graphVars, trieVars, sllVars, dllVars,
              bstVars, btVars, treeVars, pathVars, hashVars>>
pathFrame ==
  UNCHANGED <<heapVars, trieVars, sllVars, dllVars, bstVars,
              btVars, treeVars, queueVars, hashVars>>
hashFrame ==
  UNCHANGED <<heapVars, graphVars, trieVars, sllVars, dllVars, bstVars,
              btVars, treeVars, queueVars, pathVars>>

---------------------------------------------------------------------------
(* Bounds of the model.                                                    *)

\* The heap holds at most MaxHeapSize items.
MaxHeapSize == 4
\* Items inserted into the heap are the integers -1 .. MaxHeapItem.
MaxHeapItem == 2

HeapItems == (-1) .. MaxHeapItem

---------------------------------------------------------------------------
(* JavaScript values.                                                      *)

Num(n) == [t |-> "number", v |-> n]
Obj(id) == [t |-> "object", v |-> id]
Null == [t |-> "null", v |-> 0]
Undefined == [t |-> "undefined", v |-> 0]
This == [t |-> "this", v |-> 0]
Bool(b) == [t |-> "boolean", v |-> IF b THEN 1 ELSE 0]
Thrown(message) == [t |-> "throw", v |-> message]
Arr(elements) == [t |-> "array", v |-> elements]
\* A call whose loop never ends: it does not return.
Diverges == [t |-> "diverges", v |-> 0]
\* A call that is on the stack: it has not returned yet.
Running == [t |-> "running", v |-> 0]

\* ToBoolean: null, undefined, 0 and false are falsy, an object is truthy.
Truthy(x) ==
  CASE x.t = "number" -> x.v # 0
    [] x.t = "boolean" -> x.v = 1
    [] x.t = "object" -> TRUE
    [] x.t = "this" -> TRUE
    [] OTHER -> FALSE

\* Array.prototype.splice(start, 1) on a 0-based start that may be negative:
\* a negative start counts from the end, and one element is removed there.
Splice1(array, start) ==
  LET len == Len(array)
      from == IF start < 0
                THEN (IF len + start < 0 THEN 0 ELSE len + start)
                ELSE (IF start > len THEN len ELSE start)
  IN  IF from >= len
        THEN array
        ELSE SubSeq(array, 1, from) \o SubSeq(array, from + 2, len)

\* Array.prototype.indexOf(x): the 0-based index of the first element strictly
\* equal to x, or -1.
IndexOf(array, x) ==
  IF \E k \in 1 .. Len(array) : array[k] = x
    THEN (CHOOSE k \in 1 .. Len(array) :
            array[k] = x /\ \A j \in 1 .. (k - 1) : array[j] # x) - 1
    ELSE -1

\* array[index] = value on a 0-based index within the array or at its end.
SetAt(array, index, value) ==
  IF index < Len(array)
    THEN [array EXCEPT ![index + 1] = value]
    ELSE Append(array, value)

---------------------------------------------------------------------------
(* BinaryMinHeap (src/data-structures/BinaryMinHeap.js). Indexes are the   *)
(* source's 0-based indexes; At reads this.items[i].                       *)

At(array, i) == array[i + 1]

getLeftChildIndex(parentIndex) == 2 * parentIndex + 1

getRightChildIndex(parentIndex) == 2 * parentIndex + 2

\* Math.floor((childIndex - 1) / 2): \div rounds down, as Math.floor does.
getParentIndex(childIndex) == (childIndex - 1) \div 2

hasLeftChild(its, parentIndex) == getLeftChildIndex(parentIndex) < Len(its)

hasRightChild(its, parentIndex) == getRightChildIndex(parentIndex) < Len(its)

hasParent(childIndex) == getParentIndex(childIndex) >= 0

getLeftChild(its, parentIndex) == At(its, getLeftChildIndex(parentIndex))

getRightChild(its, parentIndex) == At(its, getRightChildIndex(parentIndex))

getParent(its, childIndex) == At(its, getParentIndex(childIndex))

swapItemsAt(its, i, j) ==
  [its EXCEPT ![i + 1] = At(its, j), ![j + 1] = At(its, i)]

\* The loop of #bubbleUp from position index.
RECURSIVE bubbleUpFrom(_, _)
bubbleUpFrom(its, index) ==
  IF hasParent(index) /\ getParent(its, index) > At(its, index)
    THEN bubbleUpFrom(swapItemsAt(its, getParentIndex(index), index),
                      getParentIndex(index))
    ELSE its

\* A sift-up that stops after one level.
bubbleUpOneLevel(its) ==
  IF hasParent(Len(its) - 1) /\ getParent(its, Len(its) - 1) > its[Len(its)]
    THEN swapItemsAt(its, getParentIndex(Len(its) - 1), Len(its) - 1)
    ELSE its

bubbleUp(its) == bubbleUpFrom(its, Len(its) - 1)

\* The test that ends the loop of #bubbleDown: the source compares the item
\* with the INDEX of the smaller child.
bubbleDownStops(its, index, indexOfASmallerChild) ==
  At(its, index) < indexOfASmallerChild

\* The loop of #bubbleDown from position index.
RECURSIVE bubbleDownFrom(_, _)
bubbleDownFrom(its, index) ==
  IF ~hasLeftChild(its, index)
    THEN its
    ELSE LET indexOfASmallerChild ==
               IF hasRightChild(its, index)
                  /\ getRightChild(its, index) < getLeftChild(its, index)
                 THEN getRightChildIndex(index)
                 ELSE getLeftChildIndex(index)
         IN  IF bubbleDownStops(its, index, indexOfASmallerChild)
               THEN its
               ELSE bubbleDownFrom(swapItemsAt(its, index, indexOfASmallerChild),
                                   indexOfASmallerChild)

bubbleDown(its) == bubbleDownFrom(its, 0)

\* this.items after insert(item).
insertItems(its, item) == bubbleUp(Append(its, item))

\* peek(): null on an empty heap, else this.items[0].
peek(its) == IF Len(its) = 0 THEN Null ELSE Num(At(its, 0))

\* this.items[0] = this.items.pop(): the target items[0] is fixed first, then
\* pop() shortens the array, then the popped item is stored at index 0, which
\* on the emptied array of a one-item heap puts the item back.
popIntoFirst(its) == SetAt(SubSeq(its, 1, Len(its) - 1), 0, its[Len(its)])

\* this.items after extractMin() on a non-empty heap.
extractMinItems(its) == bubbleDown(popIntoFirst(its))

\* heapDrain records a drain: the items extractMin has returned, in order,
\* since the heap was built by insert calls alone (from the construction or
\* a removeAll). An insert that follows an extractMin ends the record: the
\* heap is no longer one built by inserts. The record keeps the first
\* MaxDrain items of a drain. No operation reads heapDrain.
MaxDrain == 5

NothingDrained == [builtByInserts |-> TRUE, returned |-> <<>>]

drainAfterInsert(drain) ==
  IF drain.returned = <<>>
    THEN drain
    ELSE [builtByInserts |-> FALSE, returned |-> <<>>]

drainAfterExtractMin(drain, item) ==
  IF drain.builtByInserts /\ Len(drain.returned) < MaxDrain
    THEN [drain EXCEPT !.returned = Append(@, item)]
    ELSE drain

BinaryMinHeap_insert(item) ==
  /\ heapFrame
  /\ Len(items) < MaxHeapSize
  /\ items' = insertItems(items, item)
  /\ heapCall' = [op |-> "insert", res |-> This]
  /\ heapDrain' = drainAfterInsert(heapDrain)

BinaryMinHeap_extractMin ==
  /\ heapFrame
  /\ IF Len(items) = 0
       THEN /\ items' = items
            /\ heapCall' = [op |-> "extractMin", res |-> Null]
            /\ heapDrain' = heapDrain
       ELSE /\ items' = extractMinItems(items)
            /\ heapCall' = [op |-> "extractMin", res |-> Num(At(items, 0))]
            /\ heapDrain' = drainAfterExtractMin(heapDrain, At(items, 0))

BinaryMinHeap_removeAll ==
  /\ heapFrame
  /\ items' = <<>>
  /\ heapCall' = [op |-> "removeAll", res |-> This]
  /\ heapDrain' = NothingDrained

HeapInit ==
  /\ items = <<>>
  /\ heapCall = [op |-> "constructor", res |-> This]
  /\ heapDrain = NothingDrained

HeapNext ==
  \/ \E item \in HeapItems : BinaryMinHeap_insert(item)
  \/ BinaryMinHeap_extractMin
  \/ BinaryMinHeap_removeAll

---------------------------------------------------------------------------
(* Queue (src/unnamed/part_005, lines 150-188), used by Graph.hasPathBFS   *)
(* and by Tree.get and Tree.#getParentOf.                                  *)

\* An add that puts the item at the front of the Queue.
Queue_addFirst(queue, value) == <<value>> \o queue

Queue_add(queue, value) == Append(queue, value)

\* A remove that takes the item added last.
Queue_removeLastItem(queue) ==
  IF Len(queue) = 0 THEN Undefined ELSE queue[Len(queue)]

\* A remove that returns the first item and leaves it in the queue.
Queue_removeNothing(queue) == queue

\* remove(): this.queue.shift(1): shift takes no argument and removes the
\* first item. removeRest is the queue left, removeItem the item returned.
Queue_removeItem(queue) == IF Len(queue) = 0 THEN Undefined ELSE Head(queue)

Queue_removeRest(queue) == IF Len(queue) = 0 THEN queue ELSE Tail(queue)

Queue_isEmpty(queue) == Len(queue) = 0

\* peek(): !this.isEmpty() ? this.queue[0] : null
Queue_peek(queue) == IF ~Queue_isEmpty(queue) THEN queue[1] ELSE Null

\* A Queue takes at most MaxQueueAdds values between two removeAll.
MaxQueueAdds == 3
\* Values added to a Queue are the integers 0 .. MaxQueueValue.
MaxQueueValue == 1

QueueValues == {Num(n) : n \in 0 .. MaxQueueValue}

\* The Queue as an object of its own. queueAdded and queueReturned record
\* what the calls were given and gave; no operation reads them.
QueueAdd(value) ==
  /\ queueFrame
  /\ Len(queueAdded) < MaxQueueAdds
  /\ queueItems' = Queue_add(queueItems, value)
  /\ queueCall' = [op |-> "add", args |-> <<value>>, res |-> This]
  /\ queueAdded' = Append(queueAdded, value)
  /\ queueReturned' = queueReturned

QueueRemove ==
  /\ queueFrame
  /\ queueItems' = Queue_removeRest(queueItems)
  /\ queueCall' = [op |-> "remove", args |-> <<>>,
                   res |-> Queue_removeItem(queueItems)]
  /\ queueAdded' = queueAdded
  /\ queueReturned' = IF Queue_removeItem(queueItems) = Undefined
                        THEN queueReturned
                        ELSE Append(queueReturned,
                                    Queue_removeItem(queueItems))

QueueIsEmpty ==
  /\ queueFrame
  /\ queueCall' = [op |-> "isEmpty", args |-> <<>>,
                   res |-> Bool(Queue_isEmpty(queueItems))]
  /\ UNCHANGED <<queueItems, queueAdded, queueReturned>>

QueuePeek ==
  /\ queueFrame
  /\ queueCall' = [op |-> "peek", args |-> <<>>, res |-> Queue_peek(queueItems)]
  /\ UNCHANGED <<queueItems, queueAdded, queueReturned>>

\* removeAll() of the Queue in src/data-structures/Tree.js: this.queue = [].
QueueRemoveAll ==
  /\ queueFrame
  /\ queueItems' = <<>>
  /\ queueCall' = [op |-> "removeAll", args |-> <<>>, res |-> This]
  /\ queueAdded' = <<>>
  /\ queueReturned' = <<>>

QueueInit ==
  /\ queueItems = <<>>
  /\ queueCall = [op |-> "constructor", args |-> <<>>, res |-> This]
  /\ queueAdded = <<>>
  /\ queueReturned = <<>>

QueueNext ==
  \/ \E value \in QueueValues : QueueAdd(value)
  \/ QueueRemove
  \/ QueueIsEmpty
  \/ QueuePeek
  \/ QueueRemoveAll

---------------------------------------------------------------------------
(* Graph (src/Graph.js; src/unnamed/part_003 is the same code with         *)
(* comments). A Node object is graphHeap[id] = [value, adjacent]; a        *)
(* reference to it is Obj(id). this.nodes and every adjacent array hold    *)
(* references, so a Node removed from this.nodes lives on wherever an      *)
(* adjacent array still refers to it.                                      *)

\* At most MaxVertices Node objects are created between two removeAll calls.
MaxVertices == 3
\* addEdge is called while the adjacent arrays hold fewer than MaxEdges
\* references in all.
MaxEdges == 2
\* Vertex values are the numbers 0 .. MaxVertexValue (0 is falsy).
MaxVertexValue == 2

VertexValues == {Num(n) : n \in 0 .. MaxVertexValue}

NewGraphNode(value) == [value |-> value, adjacent |-> <<>>]

RECURSIVE SumLen(_, _)
SumLen(heap, k) ==
  IF k = 0 THEN 0 ELSE Len(heap[k].adjacent) + SumLen(heap, k - 1)

EdgeCount(heap) == SumLen(heap, Len(heap))

\* A lookup that takes the last vertex holding the value.
Graph_getLast(ns, heap, value) ==
  IF \E k \in 1 .. Len(ns) : heap[ns[k].v].value = value
    THEN ns[CHOOSE k \in 1 .. Len(ns) :
              /\ heap[ns[k].v].value = value
              /\ \A j \in k + 1 .. Len(ns) : heap[ns[j].v].value # value]
    ELSE Null

\* get(value): this.nodes.find((node) => node.value === value), or null.
Graph_get(ns, heap, value) ==
  IF \E k \in 1 .. Len(ns) : heap[ns[k].v].value = value
    THEN ns[CHOOSE k \in 1 .. Len(ns) :
              /\ heap[ns[k].v].value = value
              /\ \A j \in 1 .. (k - 1) : heap[ns[j].v].value # value]
    ELSE Null

\* visitedNodes.includes(value)
Includes(array, x) == \E k \in 1 .. Len(array) : array[k] = x

\* hasPathDFS(source, destination) and #hasPathDFS(sourceNode,
\* destinationNode, visitedNodes): the result, a boolean or a thrown error.
\* #hasPathDFS calls the PUBLIC method for each child, handing it the child
\* Node and the destination Node where the public method takes values (its
\* third argument, visitedNodes, is dropped).
RECURSIVE hasPathDFS(_, _, _, _), privateHasPathDFS(_, _, _, _, _),
          hasPathDFSChildren(_, _, _, _, _)
hasPathDFS(ns, heap, source, destination) ==
  LET sourceNode == Graph_get(ns, heap, source)
      destinationNode == Graph_get(ns, heap, destination)
  IN  IF ~Truthy(sourceNode)
        THEN Thrown("Source Node is not found.")
        ELSE IF ~Truthy(destinationNode)
          THEN Thrown("Destination Node is not found.")
          ELSE privateHasPathDFS(ns, heap, sourceNode, destinationNode, <<>>)

privateHasPathDFS(ns, heap, sourceNode, destinationNode, visitedNodes) ==
  IF Includes(visitedNodes, heap[sourceNode.v].value)
    THEN Bool(FALSE)
    ELSE IF heap[sourceNode.v].value = heap[destinationNode.v].value
      THEN Bool(TRUE)
      ELSE hasPathDFSChildren(ns, heap, heap[sourceNode.v].adjacent, 1,
                              destinationNode)

\* for (const child of sourceNode.adjacent) from the k-th child on.
hasPathDFSChildren(ns, heap, adjacent, k, destinationNode) ==
  IF k > Len(adjacent)
    THEN Bool(FALSE)
    ELSE LET found == hasPathDFS(ns, heap, adjacent[k], destinationNode)
         IN  IF found.t = "throw"
               THEN found
               ELSE IF Truthy(found)
                 THEN Bool(TRUE)
                 ELSE hasPathDFSChildren(ns, heap, adjacent, k + 1,
                                         destinationNode)

\* The test of hasPathBFS on the Node taken from the queue:
\* if (currentNode.value = destinationNode.value), an assignment. bfsVisit is
\* the heap after it, bfsMatches the value of the test.
bfsVisit(heap, currentNode, destinationNode) ==
  [heap EXCEPT ![currentNode.v].value = heap[destinationNode.v].value]

bfsMatches(heap, currentNode, destinationNode) ==
  Truthy(heap[destinationNode.v].value)

\* The while loop of hasPathBFS: [res, heap].
RECURSIVE hasPathBFSLoop(_, _, _, _)
hasPathBFSLoop(heap, queue, visitedNodes, destinationNode) ==
  IF Queue_isEmpty(queue)
    THEN [res |-> Bool(FALSE), heap |-> heap]
    ELSE LET currentNode == Queue_removeItem(queue)
             rest == Queue_removeRest(queue)
             heap1 == bfsVisit(heap, currentNode, destinationNode)
         IN  IF bfsMatches(heap, currentNode, destinationNode)
               THEN [res |-> Bool(TRUE), heap |-> heap1]
               ELSE IF Includes(visitedNodes, heap1[currentNode.v].value)
                 THEN hasPathBFSLoop(heap1, rest, visitedNodes, destinationNode)
                 ELSE hasPathBFSLoop(heap1,
                                     rest \o heap1[currentNode.v].adjacent,
                                     Append(visitedNodes,
                                            heap1[currentNode.v].value),
                                     destinationNode)

hasPathBFS(ns, heap, source, destination) ==
  LET sourceNode == Graph_get(ns, heap, source)
      destinationNode == Graph_get(ns, heap, destination)
  IN  IF ~Truthy(sourceNode)
        THEN [res |-> Thrown("Source Node is not found."), heap |-> heap]
        ELSE IF ~Truthy(destinationNode)
          THEN [res |-> Thrown("Destination Node is not found."), heap |-> heap]
          ELSE hasPathBFSLoop(heap, Queue_add(<<>>, sourceNode), <<>>,
                              destinationNode)

\* The index removeEdge hands to splice: adjacentNodes.indexOf(destination),
\* the position of the destination VALUE among the Node references.
removeEdgeIndex(adjacentNodes, heap, destination) ==
  IndexOf(adjacentNodes, destination)

\* removeEdge(source, destination): [res, heap].
removeEdge(ns, heap, source, destination) ==
  LET sourceNode == Graph_get(ns, heap, source)
  IN  IF ~Truthy(sourceNode)
        THEN [res |-> Thrown("Source Node is not found."), heap |-> heap]
        ELSE LET adjacentNodes == heap[sourceNode.v].adjacent
             IN  IF \E k \in 1 .. Len(adjacentNodes) :
                        heap[adjacentNodes[k].v].value = destination
                   THEN [res |-> This,
                         heap |-> [heap EXCEPT ![sourceNode.v].adjacent =
                                     Splice1(adjacentNodes,
                                             removeEdgeIndex(adjacentNodes,
                                                             heap,
                                                             destination))]]
                   ELSE [res |-> Null, heap |-> heap]

\* The loop of removeVertex over this.nodes from the k-th node on: the heap
\* after this.removeEdge(node.value, removedValue) for each.
RECURSIVE removeIncomingEdges(_, _, _, _)
removeIncomingEdges(ns, heap, k, removedValue) ==
  IF k > Len(ns)
    THEN [res |-> This, heap |-> heap]
    ELSE LET done == removeEdge(ns, heap, heap[ns[k].v].value, removedValue)
         IN  IF done.res.t = "throw"
               THEN done
               ELSE removeIncomingEdges(ns, done.heap, k + 1, removedValue)

\* removeVertex(value): [res, nodes, heap]. res is the array splice returns.
removeVertex(ns, heap, value) ==
  LET soughtNode == Graph_get(ns, heap, value)
      soughtNodeIndex == IndexOf(ns, soughtNode)
  IN  IF soughtNodeIndex = -1
        THEN [res |-> Null, nodes |-> ns, heap |-> heap]
        ELSE LET removedValue == heap[ns[soughtNodeIndex + 1].v].value
                 left == Splice1(ns, soughtNodeIndex)
                 done == removeIncomingEdges(left, heap, 1, removedValue)
             IN  [res |-> IF done.res.t = "throw"
                            THEN done.res
                            ELSE [t |-> "array", v |-> soughtNode.v],
                  nodes |-> left,
                  heap |-> done.heap]

Graph_addVertex(value) ==
  /\ graphFrame
  /\ Len(graphHeap) < MaxVertices
  /\ graphHeap' = Append(graphHeap, NewGraphNode(value))
  /\ nodes' = Append(nodes, Obj(Len(graphHeap) + 1))
  /\ graphCall' = [op |-> "addVertex", res |-> This]

Graph_addEdge(source, destination) ==
  LET sourceNode == Graph_get(nodes, graphHeap, source)
      destinationNode == Graph_get(nodes, graphHeap, destination)
  IN  /\ graphFrame
      /\ EdgeCount(graphHeap) < MaxEdges
      /\ nodes' = nodes
      /\ IF ~Truthy(sourceNode)
           THEN /\ graphHeap' = graphHeap
                /\ graphCall' = [op |-> "addEdge",
                                 res |-> Thrown("Source Node is not found.")]
           ELSE IF ~Truthy(destinationNode)
             THEN /\ graphHeap' = graphHeap
                  /\ graphCall' =
                       [op |-> "addEdge",
                        res |-> Thrown("Destination Node is not found.")]
             ELSE /\ graphHeap' =
                       [graphHeap EXCEPT ![sourceNode.v].adjacent =
                          Append(@, destinationNode)]
                  /\ graphCall' = [op |-> "addEdge", res |-> This]

Graph_hasPathDFS(source, destination) ==
  /\ graphFrame
  /\ nodes' = nodes
  /\ graphHeap' = graphHeap
  /\ graphCall' = [op |-> "hasPathDFS",
                   res |-> hasPathDFS(nodes, graphHeap, source, destination)]

Graph_hasPathBFS(source, destination) ==
  LET done == hasPathBFS(nodes, graphHeap, source, destination)
  IN  /\ graphFrame
      /\ nodes' = nodes
      /\ graphHeap' = done.heap
      /\ graphCall' = [op |-> "hasPathBFS", res |-> done.res]

Graph_removeVertex(value) ==
  LET done == removeVertex(nodes, graphHeap, value)
  IN  /\ graphFrame
      /\ nodes' = done.nodes
      /\ graphHeap' = done.heap
      /\ graphCall' = [op |-> "removeVertex", res |-> done.res]

Graph_removeEdge(source, destination) ==
  LET done == removeEdge(nodes, graphHeap, source, destination)
  IN  /\ graphFrame
      /\ nodes' = nodes
      /\ graphHeap' = done.heap
      /\ graphCall' = [op |-> "removeEdge", res |-> done.res]

\* removeAll(): this.nodes = []. No reference to the old Node objects is
\* left, so they are dropped from the heap.
Graph_removeAll ==
  /\ graphFrame
  /\ nodes' = <<>>
  /\ graphHeap' = <<>>
  /\ graphCall' = [op |-> "removeAll", res |-> This]

GraphInit ==
  /\ nodes = <<>>
  /\ graphHeap = <<>>
  /\ graphCall = [op |-> "constructor", res |-> This]

GraphNext ==
  \/ \E value \in VertexValues : Graph_addVertex(value)
  \/ \E source, destination \in VertexValues : Graph_addEdge(source, destination)
  \/ \E source, destination \in VertexValues :
       Graph_hasPathDFS(source, destination)
  \/ \E source, destination \in VertexValues :
       Graph_hasPathBFS(source, destination)
  \/ \E value \in VertexValues : Graph_removeVertex(value)
  \/ \E source, destination \in VertexValues :
       Graph_removeEdge(source, destination)
  \/ Graph_removeAll

---------------------------------------------------------------------------
(* Graph.hasPathDFS and Graph.hasPathBFS by steps (src/Graph.js, lines     *)
(* 67-133): a call is begun, then runs one step at a time until it returns *)
(* or throws. While a call runs, pathPc names it and no other operation of *)
(* the Graph is taken; graphCall takes the call's result when it ends.     *)

\* A frame of the call stack of hasPathDFS: of the public method (source
\* and destination are its arguments as given) or of #hasPathDFS (source
\* and destination are Node references, k the position in
\* sourceNode.adjacent the for loop is at, 0 before the loop).
DFSFrame(fn, source, destination) ==
  [fn |-> fn, source |-> source, destination |-> destination,
   visitedNodes |-> <<>>, k |-> 0]

\* visitedNodes.push(value)
pushVisited(visitedNodes, value) == Append(visitedNodes, value)

\* A call ends, returning or throwing res; its locals are gone.
pathQueryEnds(op, res) ==
  /\ pathPc' = "idle"
  /\ graphCall' = [op |-> op, res |-> res]

bfsLocalsGone ==
  /\ bfsQueue' = <<>>
  /\ bfsVisited' = <<>>
  /\ bfsDestination' = Null

hasPathDFS_call(source, destination) ==
  /\ pathFrame
  /\ pathPc = "idle"
  /\ pathPc' = "hasPathDFS"
  /\ dfsStack' = <<DFSFrame("hasPathDFS", source, destination)>>
  /\ graphCall' = [op |-> "hasPathDFS", res |-> Running]
  /\ UNCHANGED <<nodes, graphHeap, bfsQueue, bfsVisited, bfsDestination>>

\* The frame on top returns false to its caller: the for loop of the
\* #hasPathDFS below goes to its next child, or the call ends.
dfsReturnsFalse(below) ==
  IF below = <<>>
    THEN /\ dfsStack' = <<>>
         /\ pathQueryEnds("hasPathDFS", Bool(FALSE))
    ELSE /\ dfsStack' = [below EXCEPT ![Len(below)].k = @ + 1]
         /\ UNCHANGED <<pathPc, graphCall>>

\* A thrown error, and a true (which every #hasPathDFS below returns in its
\* turn), end the whole call.
dfsEndsWith(res) ==
  /\ dfsStack' = <<>>
  /\ pathQueryEnds("hasPathDFS", res)

hasPathDFS_step ==
  LET top == dfsStack[Len(dfsStack)]
      below == SubSeq(dfsStack, 1, Len(dfsStack) - 1)
      sourceNode == Graph_get(nodes, graphHeap, top.source)
      destinationNode == Graph_get(nodes, graphHeap, top.destination)
      adjacent == graphHeap[top.source.v].adjacent
  IN  /\ pathFrame
      /\ pathPc = "hasPathDFS"
      /\ UNCHANGED <<nodes, graphHeap, bfsQueue, bfsVisited, bfsDestination>>
      /\ CASE top.fn = "hasPathDFS" ->
                IF ~Truthy(sourceNode)
                  THEN dfsEndsWith(Thrown("Source Node is not found."))
                  ELSE IF ~Truthy(destinationNode)
                    THEN dfsEndsWith(Thrown("Destination Node is not found."))
                    ELSE /\ dfsStack' =
                              Append(below,
                                     DFSFrame("#hasPathDFS", sourceNode,
                                              destinationNode))
                         /\ UNCHANGED <<pathPc, graphCall>>
           [] top.fn = "#hasPathDFS" /\ top.k = 0 ->
                IF Includes(top.visitedNodes, graphHeap[top.source.v].value)
                  THEN dfsReturnsFalse(below)
                  ELSE IF graphHeap[top.source.v].value =
                            graphHeap[top.destination.v].value
                    THEN dfsEndsWith(Bool(TRUE))
                    ELSE /\ dfsStack' =
                              Append(below,
                                [top EXCEPT
                                   !.visitedNodes =
                                      pushVisited(@,
                                        graphHeap[top.source.v].value),
                                   !.k = 1])
                         /\ UNCHANGED <<pathPc, graphCall>>
           [] top.fn = "#hasPathDFS" /\ top.k >= 1 ->
                IF top.k > Len(adjacent)
                  THEN dfsReturnsFalse(below)
                  ELSE /\ dfsStack' =
                            Append(dfsStack,
                                   DFSFrame("hasPathDFS", adjacent[top.k],
                                            top.destination))
                       /\ UNCHANGED <<pathPc, graphCall>>

\* hasPathBFS up to queue.add(sourceNode), lines 101-111.
hasPathBFS_call(source, destination) ==
  LET sourceNode == Graph_get(nodes, graphHeap, source)
      destinationNode == Graph_get(nodes, graphHeap, destination)
  IN  /\ pathFrame
      /\ pathPc = "idle"
      /\ UNCHANGED <<nodes, graphHeap, dfsStack>>
      /\ IF ~Truthy(sourceNode)
           THEN /\ pathQueryEnds("hasPathBFS",
                                 Thrown("Source Node is not found."))
                /\ bfsLocalsGone
           ELSE IF ~Truthy(destinationNode)
             THEN /\ pathQueryEnds("hasPathBFS",
                                   Thrown("Destination Node is not found."))
                  /\ bfsLocalsGone
             ELSE /\ pathPc' = "hasPathBFS"
                  /\ graphCall' = [op |-> "hasPathBFS", res |-> Running]
                  /\ bfsQueue' = Queue_add(<<>>, sourceNode)
                  /\ bfsVisited' = <<>>
                  /\ bfsDestination' = destinationNode

\* The test of the while loop and one pass through its body, lines 113-130.
hasPathBFS_iteration ==
  LET currentNode == Queue_removeItem(bfsQueue)
      rest == Queue_removeRest(bfsQueue)
      heap1 == bfsVisit(graphHeap, currentNode, bfsDestination)
  IN  /\ pathFrame
      /\ pathPc = "hasPathBFS"
      /\ UNCHANGED <<nodes, dfsStack>>
      /\ IF Queue_isEmpty(bfsQueue)
           THEN /\ pathQueryEnds("hasPathBFS", Bool(FALSE))
                /\ bfsLocalsGone
                /\ graphHeap' = graphHeap
           ELSE /\ graphHeap' = heap1
                /\ IF bfsMatches(graphHeap, currentNode, bfsDestination)
                     THEN /\ pathQueryEnds("hasPathBFS", Bool(TRUE))
                          /\ bfsLocalsGone
                     ELSE /\ UNCHANGED <<pathPc, graphCall, bfsDestination>>
                          /\ IF Includes(bfsVisited, heap1[currentNode.v].value)
                               THEN /\ bfsQueue' = rest
                                    /\ bfsVisited' = bfsVisited
                               ELSE /\ bfsQueue' =
                                         rest \o heap1[currentNode.v].adjacent
                                    /\ bfsVisited' =
                                         pushVisited(bfsVisited,
                                           heap1[currentNode.v].value)

PathInit ==
  /\ pathPc = "idle"
  /\ dfsStack = <<>>
  /\ bfsQueue = <<>>
  /\ bfsVisited = <<>>
  /\ bfsDestination = Null

\* The graph is built by addVertex and addEdge between two path queries.
PathNext ==
  \/ /\ pathPc = "idle"
     /\ \E value \in VertexValues : Graph_addVertex(value)
  \/ /\ pathPc = "idle"
     /\ \E source, destination \in VertexValues :
          Graph_addEdge(source, destination)
  \/ \E source, destination \in VertexValues :
       hasPathDFS_call(source, destination)
  \/ hasPathDFS_step
  \/ \E source, destination \in VertexValues :
       hasPathBFS_call(source, destination)
  \/ hasPathBFS_iteration

---------------------------------------------------------------------------
(* Trie (src/data-structures/Trie.js). A Node is [children, isTerminating] *)
(* with children a function from the characters that have a child to the  *)
(* child Nodes (the Node's own character is its key there). A word is a    *)
(* sequence of characters. An operation that throws keeps what it changed  *)
(* before the throw.                                                       *)

\* Words have at most MaxWordLen characters.
MaxWordLen == 2
\* addWord is called while fewer than MaxWords Nodes are terminating.
MaxWords == 3

Alphabet == {"a", "b"}

Words == UNION {[1 .. n -> Alphabet] : n \in 0 .. MaxWordLen}

NoChildren == [c \in {} |-> FALSE]

NewTrieNode == [children |-> NoChildren, isTerminating |-> FALSE]

\* The errors thrown, each named by the first sentence of its message.
ErrWordDoesNotExist ==
  "The given word cannot be removed because it does not exist."

ErrNotMatchedExactly ==
  "The given word cannot be removed because it has not matched exactly."

ErrChildDoesNotExist ==
  "The given Node cannot be removed because it does not exist."

ErrPartOfLongerSequence ==
  "The given Node cannot be removed because it is a part of a longer sequence."

ErrTerminatesSequence ==
  "The given Node cannot be removed because it terminates a sequence."

hasChildren(node) == DOMAIN node.children # {}

\* getChild(character) returns the child or null: hasChild is its truthiness.
hasChild(node, character) == character \in DOMAIN node.children

getChild(node, character) == node.children[character]

\* An assignment that replaces the whole children object by one holding only
\* the given child.
setOnlyChild(node, character, child) ==
  [node EXCEPT !.children = [c \in {character} |-> child]]

\* currentNode.children[character] = child
setChild(node, character, child) ==
  [node EXCEPT !.children =
     [c \in DOMAIN node.children \cup {character} |->
        IF c = character THEN child ELSE node.children[c]]]

\* delete this.children[character]
deleteChild(node, character) ==
  [node EXCEPT !.children =
     [c \in DOMAIN node.children \ {character} |-> node.children[c]]]

\* removeChild without its test that the child has no children.
removeChildOfAnySize(node, character) ==
  IF ~hasChild(node, character)
    THEN [node |-> node, err |-> ErrChildDoesNotExist]
    ELSE IF getChild(node, character).isTerminating
      THEN [node |-> node, err |-> ErrTerminatesSequence]
      ELSE [node |-> deleteChild(node, character), err |-> "none"]

\* Node.removeChild(character): [node, err], the Node after the call and the
\* error thrown ("none": the child was deleted).
removeChild(node, character) ==
  IF ~hasChild(node, character)
    THEN [node |-> node, err |-> ErrChildDoesNotExist]
    ELSE IF hasChildren(getChild(node, character))
      THEN [node |-> node, err |-> ErrPartOfLongerSequence]
      ELSE IF getChild(node, character).isTerminating
        THEN [node |-> node, err |-> ErrTerminatesSequence]
        ELSE [node |-> deleteChild(node, character), err |-> "none"]

setAsTerminating(node) == [node EXCEPT !.isTerminating = TRUE]

unsetAsTerminating(node) == [node EXCEPT !.isTerminating = FALSE]

\* The loop of addWord from the i-th character on, at currentNode: the Node
\* after it.
RECURSIVE addWordFrom(_, _, _)
addWordFrom(currentNode, word, i) ==
  IF i > Len(word)
    THEN setAsTerminating(currentNode)
    ELSE LET character == word[i]
             child == IF hasChild(currentNode, character)
                        THEN getChild(currentNode, character)
                        ELSE NewTrieNode
         IN  setChild(currentNode, character, addWordFrom(child, word, i + 1))

\* contains(word, isExactMatch) from the i-th character on, at currentNode.
RECURSIVE containsFrom(_, _, _, _)
containsFrom(currentNode, word, i, isExactMatch) ==
  IF i > Len(word)
    THEN (IF isExactMatch THEN currentNode.isTerminating ELSE TRUE)
    ELSE IF ~hasChild(currentNode, word[i])
      THEN FALSE
      ELSE containsFrom(getChild(currentNode, word[i]), word, i + 1,
                        isExactMatch)

contains(rt, word, isExactMatch) == containsFrom(rt, word, 1, isExactMatch)

\* A #removeWord that leaves the child in place and reports the removal as
\* completed.
keepChild(currentNode, character) ==
  [node |-> currentNode, completed |-> TRUE, err |-> "none"]

\* What #removeWord does once the child's part is done and the child is
\* neither terminating nor kept by a completed removal:
\* currentNode.removeChild(character), then return false.
pruneChild(currentNode, character) ==
  LET removed == removeChild(currentNode, character)
  IN  [node |-> removed.node, completed |-> FALSE, err |-> removed.err]

\* #removeWord(word, i, currentNode), i counted from 1: [node, completed, err],
\* the Node currentNode after the call, the value returned
\* (isRemovalCompleted) and the error thrown ("none": it returned).
RECURSIVE removeWordFrom(_, _, _)
removeWordFrom(word, i, currentNode) ==
  LET character == word[i]
  IN  IF ~hasChild(currentNode, character)
        THEN [node |-> currentNode, completed |-> FALSE,
              err |-> ErrWordDoesNotExist]
        ELSE IF i # Len(word)
          THEN LET below == removeWordFrom(word, i + 1,
                                           getChild(currentNode, character))
                   current == setChild(currentNode, character, below.node)
               IN  IF below.err # "none"
                     THEN [node |-> current, completed |-> FALSE,
                           err |-> below.err]
                     ELSE IF below.node.isTerminating \/ below.completed
                       THEN [node |-> current, completed |-> TRUE,
                             err |-> "none"]
                       ELSE pruneChild(current, character)
          ELSE IF ~getChild(currentNode, character).isTerminating
            THEN [node |-> currentNode, completed |-> FALSE,
                  err |-> ErrNotMatchedExactly]
            ELSE LET current ==
                       setChild(currentNode, character,
                                unsetAsTerminating(getChild(currentNode,
                                                            character)))
                 IN  IF hasChildren(getChild(current, character))
                       THEN [node |-> current, completed |-> TRUE,
                             err |-> "none"]
                       ELSE pruneChild(current, character)

RECURSIVE CountTerminating(_)
CountTerminating(node) ==
  LET RECURSIVE Sum(_)
      Sum(S) == IF S = {} THEN 0
                ELSE LET c == CHOOSE x \in S : TRUE
                     IN  CountTerminating(node.children[c]) + Sum(S \ {c})
  IN  (IF node.isTerminating THEN 1 ELSE 0) + Sum(DOMAIN node.children)

Trie_addWord(word) ==
  /\ trieFrame
  /\ CountTerminating(root) < MaxWords
  /\ root' = addWordFrom(root, word, 1)
  /\ trieCall' = [op |-> "addWord", word |-> word, res |-> This]
  /\ trieWords' = trieWords \cup {word}

\* A removeWord that swallows what #removeWord throws and returns the trie.
Trie_removeWordQuietly(word) ==
  /\ trieFrame
  /\ trieWords' = trieWords \ {word}
  /\ root' = IF Len(word) = 0 THEN root ELSE removeWordFrom(word, 1, root).node
  /\ trieCall' = [op |-> "removeWord", word |-> word,
                  res |-> IF Len(word) = 0 THEN Null ELSE This]

\* trieWords records what the calls asked for: addWord(word) puts word in,
\* removeWord(word) takes it out (whether the call returns or throws),
\* removeAll empties it. No operation reads trieWords.
Trie_removeWord(word) ==
  /\ trieFrame
  /\ trieWords' = trieWords \ {word}
  /\ IF Len(word) = 0
       THEN /\ root' = root
            /\ trieCall' = [op |-> "removeWord", word |-> word, res |-> Null]
       ELSE LET done == removeWordFrom(word, 1, root)
            IN  /\ root' = done.node
                /\ trieCall' = [op |-> "removeWord", word |-> word,
                                res |-> IF done.err = "none"
                                          THEN This
                                          ELSE Thrown(done.err)]

\* A removeAll that keeps the root.
Trie_keepAll ==
  /\ trieFrame
  /\ root' = root
  /\ trieCall' = [op |-> "removeAll", word |-> <<>>, res |-> This]
  /\ trieWords' = {}

Trie_removeAll ==
  /\ trieFrame
  /\ root' = NewTrieNode
  /\ trieCall' = [op |-> "removeAll", word |-> <<>>, res |-> This]
  /\ trieWords' = {}

TrieInit ==
  /\ root = NewTrieNode
  /\ trieCall = [op |-> "constructor", word |-> <<>>, res |-> This]
  /\ trieWords = {}

TrieNext ==
  \/ \E word \in Words : Trie_addWord(word)
  \/ \E word \in Words : Trie_removeWord(word)
  \/ Trie_removeAll

---------------------------------------------------------------------------
(* SinglyLinkedList (src/SinglyLinkedList.js).  The Node objects live in   *)
(* sllHeap, the i-th created Node at index i; a reference to it is Obj(i). *)

\* The list classes allocate at most MaxListNodes Nodes between two removeAll.
MaxListNodes == 4
\* Values stored in the lists are the integers 0 .. MaxListValue.
MaxListValue == 1

ListValues == 0 .. MaxListValue

NewSLLNode(value) == [value |-> value, next |-> Null]

\* The loop of #getPredecessorOf at fastTraversalNode, entered for the
\* steps-th time: a loop that has run more often than there are Nodes is in
\* a cycle and never ends.
RECURSIVE sllPredecessorLoop(_, _, _, _, _)
sllPredecessorLoop(heap, fastTraversalNode, slowTraversalNode, value, steps) ==
  IF fastTraversalNode = Null
    THEN Null
    ELSE IF steps > Len(heap)
      THEN Diverges
      ELSE IF heap[fastTraversalNode.v].value = value
        THEN slowTraversalNode
        ELSE sllPredecessorLoop(heap, heap[fastTraversalNode.v].next,
                                fastTraversalNode, value, steps + 1)

getPredecessorOf(head, heap, value) ==
  IF head = Null \/ heap[head.v].next = Null
    THEN Null
    ELSE sllPredecessorLoop(heap, head, Null, value, 1)

\* An unlinking that always ends the list at the predecessor.
sllUnlinkRest(heap, predecessorOfTheSoughtNode) ==
  [heap EXCEPT ![predecessorOfTheSoughtNode.v].next = Null]

\* predecessorOfTheSoughtNode.next = null, or = successorOfTheSoughtNode.
sllUnlinkAfter(heap, predecessorOfTheSoughtNode) ==
  LET soughtNode == heap[predecessorOfTheSoughtNode.v].next
      successorOfTheSoughtNode == heap[soughtNode.v].next
  IN  IF heap[soughtNode.v].next = Null
        THEN [heap EXCEPT ![predecessorOfTheSoughtNode.v].next = Null]
        ELSE [heap EXCEPT ![predecessorOfTheSoughtNode.v].next =
                successorOfTheSoughtNode]

\* remove(value): [head, heap, res], the list after the call and what it
\* returned.
sllRemove(head, heap, value) ==
  IF head = Null
    THEN [head |-> head, heap |-> heap, res |-> Null]
    ELSE IF heap[head.v].value = value
      THEN [head |-> heap[head.v].next, heap |-> heap, res |-> head]
      ELSE LET predecessorOfTheSoughtNode ==
                 getPredecessorOf(head, heap, value)
           IN  IF predecessorOfTheSoughtNode = Null
                 THEN [head |-> head, heap |-> heap, res |-> Null]
                 ELSE IF predecessorOfTheSoughtNode = Diverges
                   THEN [head |-> head, heap |-> heap, res |-> Diverges]
                   ELSE [head |-> head,
                         heap |-> sllUnlinkAfter(heap,
                                                 predecessorOfTheSoughtNode),
                         res |-> heap[predecessorOfTheSoughtNode.v].next]

SLL_insert(value) ==
  /\ sllFrame
  /\ Len(sllHeap) < MaxListNodes
  /\ LET node == Obj(Len(sllHeap) + 1)
     IN  /\ sllHeap' = IF sllHead = Null
                         THEN Append(sllHeap, NewSLLNode(value))
                         ELSE Append(sllHeap,
                                     [NewSLLNode(value) EXCEPT !.next = sllHead])
         /\ sllHead' = node
  /\ sllCall' = [op |-> "insert", args |-> <<value>>, res |-> This]

SLL_remove(value) ==
  /\ sllFrame
  /\ LET done == sllRemove(sllHead, sllHeap, value)
     IN  /\ sllHead' = done.head
         /\ sllHeap' = done.heap
         /\ sllCall' = [op |-> "remove", args |-> <<value>>, res |-> done.res]

\* removeAll(): the head is cleared; the Nodes, now unreachable from the
\* list, leave the model.
SLL_removeAll ==
  /\ sllFrame
  /\ sllHead' = Null
  /\ sllHeap' = <<>>
  /\ sllCall' = [op |-> "removeAll", args |-> <<>>, res |-> This]

SLLInit ==
  /\ sllHead = Null
  /\ sllHeap = <<>>
  /\ sllCall = [op |-> "constructor", args |-> <<>>, res |-> This]

SLLNext ==
  \/ \E value \in ListValues : SLL_insert(value)
  \/ \E value \in ListValues : SLL_remove(value)
  \/ SLL_removeAll

---------------------------------------------------------------------------
(* DoublyLinkedList (src/DoublyLinkedList.js).  The Node objects live in   *)
(* dllHeap, the i-th created Node at index i; a reference to it is Obj(i). *)

NewDLLNode(value) == [value |-> value, prev |-> Null, next |-> Null]

\* What `this.head.prev = null` throws when this.head is null.
ErrSetPrevOfNull == "TypeError: Cannot set properties of null (setting 'prev')"

\* The loop of get at traversalNode, entered for the steps-th time.
RECURSIVE dllGetLoop(_, _, _, _)
dllGetLoop(heap, traversalNode, value, steps) ==
  IF traversalNode = Null
    THEN Null
    ELSE IF steps > Len(heap)
      THEN Diverges
      ELSE IF heap[traversalNode.v].value = value
        THEN traversalNode
        ELSE dllGetLoop(heap, heap[traversalNode.v].next, value, steps + 1)

DLL_get(head, heap, value) ==
  IF head = Null THEN Null ELSE dllGetLoop(heap, head, value, 1)

\* The removal of a Node between two others that drops every Node after it.
dllUnlinkRest(heap, predecessor, successor) ==
  [heap EXCEPT ![predecessor.v].next = Null]

\* The removal of a Node between two others that forgets the successor's
\* prev.
dllUnlinkMiddleNextOnly(heap, predecessor, successor) ==
  [heap EXCEPT ![predecessor.v].next = successor]

\* predecessorOfTheSoughtNode.next = successorOfTheSoughtNode
\* successorOfTheSoughtNode.prev = predecessorOfTheSoughtNode
dllUnlinkMiddle(heap, predecessorOfTheSoughtNode, successorOfTheSoughtNode) ==
  [heap EXCEPT ![predecessorOfTheSoughtNode.v].next = successorOfTheSoughtNode,
               ![successorOfTheSoughtNode.v].prev = predecessorOfTheSoughtNode]

\* The head case of remove: this.head = this.head.next, then
\* this.head.prev = null, which throws when the new head is null.
dllUnlinkHead(head, heap) ==
  LET newHead == heap[head.v].next
  IN  IF newHead = Null
        THEN [head |-> newHead, heap |-> heap,
              res |-> Thrown(ErrSetPrevOfNull)]
        ELSE [head |-> newHead,
              heap |-> [heap EXCEPT ![newHead.v].prev = Null],
              res |-> This]

\* remove(value): [head, heap, res], the list after the call and what it
\* returned or threw.
dllRemove(head, heap, value) ==
  IF head = Null
    THEN [head |-> head, heap |-> heap, res |-> This]
    ELSE LET soughtNode == DLL_get(head, heap, value)
         IN  IF soughtNode = Null
               THEN [head |-> head, heap |-> heap, res |-> This]
               ELSE IF soughtNode = Diverges
                 THEN [head |-> head, heap |-> heap, res |-> Diverges]
                 ELSE LET predecessorOfTheSoughtNode ==
                            heap[soughtNode.v].prev
                          successorOfTheSoughtNode == heap[soughtNode.v].next
                      IN  IF soughtNode = head
                            THEN dllUnlinkHead(head, heap)
                            ELSE IF heap[soughtNode.v].next = Null
                              THEN [head |-> head,
                                    heap |-> [heap EXCEPT
                                      ![predecessorOfTheSoughtNode.v].next =
                                         Null],
                                    res |-> This]
                              ELSE [head |-> head,
                                    heap |-> dllUnlinkMiddle(heap,
                                               predecessorOfTheSoughtNode,
                                               successorOfTheSoughtNode),
                                    res |-> This]

DLL_insert(value) ==
  /\ dllFrame
  /\ Len(dllHeap) < MaxListNodes
  /\ LET node == Obj(Len(dllHeap) + 1)
     IN  /\ dllHeap' =
              IF dllHead = Null
                THEN Append(dllHeap, NewDLLNode(value))
                ELSE Append([dllHeap EXCEPT ![dllHead.v].prev = node],
                            [NewDLLNode(value) EXCEPT !.next = dllHead])
         /\ dllHead' = node
  /\ dllCall' = [op |-> "insert", args |-> <<value>>, res |-> This]

DLL_remove(value) ==
  /\ dllFrame
  /\ LET done == dllRemove(dllHead, dllHeap, value)
     IN  /\ dllHead' = done.head
         /\ dllHeap' = done.heap
         /\ dllCall' = [op |-> "remove", args |-> <<value>>, res |-> done.res]

\* removeAll(): the head is cleared; the Nodes, now unreachable from the
\* list, leave the model.
DLL_removeAll ==
  /\ dllFrame
  /\ dllHead' = Null
  /\ dllHeap' = <<>>
  /\ dllCall' = [op |-> "removeAll", args |-> <<>>, res |-> This]

DLLInit ==
  /\ dllHead = Null
  /\ dllHeap = <<>>
  /\ dllCall = [op |-> "constructor", args |-> <<>>, res |-> This]

DLLNext ==
  \/ \E value \in ListValues : DLL_insert(value)
  \/ \E value \in ListValues : DLL_remove(value)
  \/ DLL_removeAll

---------------------------------------------------------------------------
(* BinarySearchTree (src/data-structures/BinarySearchTree.js).  A Node is  *)
(* [value, leftBranch, rightBranch], each branch null or a Node; every     *)
(* Node is created by insert and attached once, so the tree is the nested  *)
(* record.  A reference to a Node is Obj(path), the branches that lead to  *)
(* it from the root at the time of the call.                               *)

\* The binary trees hold at most MaxBSTNodes Nodes.
MaxBSTNodes == 4
\* Values stored in the binary trees are the integers 0 .. MaxBSTValue.
MaxBSTValue == 2

BSTValues == 0 .. MaxBSTValue

NewBSTNode(value) ==
  [value |-> value, leftBranch |-> Null, rightBranch |-> Null]

\* What `node.value` throws when node is null.
ErrValueOfNull == "TypeError: Cannot read properties of null (reading 'value')"

\* The Node (or null) the path leads to.
RECURSIVE NodeAt(_, _)
NodeAt(rt, path) ==
  IF path = <<>> THEN rt ELSE NodeAt(rt[Head(path)], Tail(path))

\* The tree after `node[branch] = child` on the Node the path leads to.
RECURSIVE setBranch(_, _, _, _)
setBranch(rt, path, branch, child) ==
  IF path = <<>>
    THEN [rt EXCEPT ![branch] = child]
    ELSE [rt EXCEPT ![Head(path)] =
            setBranch(rt[Head(path)], Tail(path), branch, child)]

RECURSIVE bstSize(_)
bstSize(node) ==
  IF node = Null
    THEN 0
    ELSE 1 + bstSize(node.leftBranch) + bstSize(node.rightBranch)

\* node?.value
OptionalValue(node) == IF node = Null THEN Undefined ELSE Num(node.value)

\* A descent that sends a value equal to the Node's to the right.
branchForStrict(value, traversalNode) ==
  IF value < traversalNode.value THEN "leftBranch" ELSE "rightBranch"

\* The branch the descent takes at traversalNode: left when
\* value <= traversalNode.value, else right.
branchFor(value, traversalNode) ==
  IF value <= traversalNode.value THEN "leftBranch" ELSE "rightBranch"

\* The two predicates #conditionalGet is called with: (node) => node === null
\* and (node) => node.value === value, which throws on null.
applyPredicate(predicate, node, value) ==
  IF predicate = "isNull"
    THEN Bool(node = Null)
    ELSE IF node = Null
      THEN Thrown(ErrValueOfNull)
      ELSE Bool(node.value = value)

\* The loop of #conditionalGet at traversalNode: null, the location
\* [soughtNode, soughtBranch], or what the predicate threw.
RECURSIVE conditionalGetLoop(_, _, _, _)
conditionalGetLoop(rt, traversalNode, value, predicate) ==
  LET node == NodeAt(rt, traversalNode)
  IN  IF node = Null
        THEN Null
        ELSE LET branch == branchFor(value, node)
                 test == applyPredicate(predicate, node[branch], value)
             IN  IF test.t = "throw"
                   THEN test
                   ELSE IF Truthy(test)
                     THEN Arr(<<Obj(traversalNode), branch>>)
                     ELSE conditionalGetLoop(rt, Append(traversalNode, branch),
                                             value, predicate)

conditionalGet(rt, value, predicate) ==
  conditionalGetLoop(rt, <<>>, value, predicate)

\* insert(value): the root after the call.
bstInsert(rt, value) ==
  IF rt = Null
    THEN NewBSTNode(value)
    ELSE LET location == conditionalGet(rt, value, "isNull")
             insertionNode == location.v[1]
             insertionBranch == location.v[2]
         IN  setBranch(rt, insertionNode.v, insertionBranch,
                       NewBSTNode(value))

\* A test that takes the first Node holding the value.
holdsSoughtValue(traversalNode, value) == value = traversalNode.value

\* value === traversalNode.value && value !== traversalNode.leftBranch?.value
isSoughtNode(traversalNode, value) ==
  /\ value = traversalNode.value
  /\ Num(value) # OptionalValue(traversalNode.leftBranch)

\* The loop of get at traversalNode.
RECURSIVE getLoop(_, _, _)
getLoop(rt, traversalNode, value) ==
  LET node == NodeAt(rt, traversalNode)
  IN  IF node = Null
        THEN Null
        ELSE IF value <= node.value
          THEN IF isSoughtNode(node, value)
                 THEN Obj(traversalNode)
                 ELSE getLoop(rt, Append(traversalNode, "leftBranch"), value)
          ELSE getLoop(rt, Append(traversalNode, "rightBranch"), value)

bstGet(rt, value) == IF rt = Null THEN Null ELSE getLoop(rt, <<>>, value)

\* A remove that, at the root, takes the root Node away and keeps its left
\* branch as the tree.
bstRemoveKeepingLeft(rt, value) ==
  IF rt = Null
    THEN [root |-> rt, res |-> Null]
    ELSE IF value = rt.value
      THEN [root |-> rt.leftBranch, res |-> Obj(<<>>)]
      ELSE [root |-> rt, res |-> Null]

\* remove(value): [root, res], the root after the call and what the call
\* returned or threw.
bstRemove(rt, value) ==
  IF rt = Null
    THEN [root |-> rt, res |-> Null]
    ELSE IF value = rt.value
      THEN [root |-> Null, res |-> Obj(<<>>)]
      ELSE LET locationOfNode == conditionalGet(rt, value, "holdsValue")
           IN  IF locationOfNode.t = "throw"
                 THEN [root |-> rt, res |-> locationOfNode]
                 ELSE IF locationOfNode = Null
                   THEN [root |-> rt, res |-> Null]
                   ELSE LET removalNode == locationOfNode.v[1]
                            soughtBranch == locationOfNode.v[2]
                        IN  [root |-> setBranch(rt, removalNode.v,
                                                soughtBranch, Null),
                             res |-> Obj(Append(removalNode.v, soughtBranch))]

BST_insert(value) ==
  /\ bstFrame
  /\ bstSize(bstRoot) < MaxBSTNodes
  /\ bstRoot' = bstInsert(bstRoot, value)
  /\ bstCall' = [op |-> "insert", args |-> <<value>>, res |-> This]

BST_get(value) ==
  /\ bstFrame
  /\ bstRoot' = bstRoot
  /\ bstCall' = [op |-> "get", args |-> <<value>>,
                 res |-> bstGet(bstRoot, value)]

BST_remove(value) ==
  /\ bstFrame
  /\ LET done == bstRemove(bstRoot, value)
     IN  /\ bstRoot' = done.root
         /\ bstCall' = [op |-> "remove", args |-> <<value>>, res |-> done.res]

BST_removeAll ==
  /\ bstFrame
  /\ bstRoot' = Null
  /\ bstCall' = [op |-> "removeAll", args |-> <<>>, res |-> This]

BSTInit ==
  /\ bstRoot = Null
  /\ bstCall = [op |-> "constructor", args |-> <<>>, res |-> This]

BSTNext ==
  \/ \E value \in BSTValues : BST_insert(value)
  \/ \E value \in BSTValues : BST_get(value)
  \/ \E value \in BSTValues : BST_remove(value)
  \/ BST_removeAll

---------------------------------------------------------------------------
(* BinaryTree (src/BinarySearchTree.js): the same Node and the same get,   *)
(* with #getInsertionPoint and #getRemovalPoint in place of                *)
(* #conditionalGet, and a remove that returns removalNode.                 *)

\* The loop of #getInsertionPoint at traversalNode: [insertionNode,
\* insertionBranch].
RECURSIVE getInsertionPointLoop(_, _, _)
getInsertionPointLoop(rt, traversalNode, value) ==
  LET node == NodeAt(rt, traversalNode)
  IN  IF node = Null
        THEN Arr(<<Null, "">>)
        ELSE IF value <= node.value
          THEN IF node.leftBranch = Null
                 THEN Arr(<<Obj(traversalNode), "leftBranch">>)
                 ELSE getInsertionPointLoop(
                        rt, Append(traversalNode, "leftBranch"), value)
          ELSE IF node.rightBranch = Null
                 THEN Arr(<<Obj(traversalNode), "rightBranch">>)
                 ELSE getInsertionPointLoop(
                        rt, Append(traversalNode, "rightBranch"), value)

getInsertionPoint(rt, value) == getInsertionPointLoop(rt, <<>>, value)

\* The loop of #getRemovalPoint at traversalNode: null or [removalNode,
\* removalBranch].
RECURSIVE getRemovalPointLoop(_, _, _)
getRemovalPointLoop(rt, traversalNode, value) ==
  LET node == NodeAt(rt, traversalNode)
  IN  IF node = Null
        THEN Null
        ELSE IF value <= node.value
          THEN IF OptionalValue(node.leftBranch) = Num(value)
                 THEN Arr(<<Obj(traversalNode), "leftBranch">>)
                 ELSE getRemovalPointLoop(
                        rt, Append(traversalNode, "leftBranch"), value)
          ELSE IF OptionalValue(node.rightBranch) = Num(value)
                 THEN Arr(<<Obj(traversalNode), "rightBranch">>)
                 ELSE getRemovalPointLoop(
                        rt, Append(traversalNode, "rightBranch"), value)

getRemovalPoint(rt, value) == getRemovalPointLoop(rt, <<>>, value)

\* insert(value): the root after the call.
btInsert(rt, value) ==
  IF rt = Null
    THEN NewBSTNode(value)
    ELSE LET location == getInsertionPoint(rt, value)
             insertionNode == location.v[1]
             insertionBranch == location.v[2]
         IN  setBranch(rt, insertionNode.v, insertionBranch,
                       NewBSTNode(value))

\* remove(value): [root, res]; the call returns removalNode, the Node whose
\* branch was cleared.
btRemove(rt, value) ==
  IF rt = Null
    THEN [root |-> rt, res |-> Null]
    ELSE IF value = rt.value
      THEN [root |-> Null, res |-> Obj(<<>>)]
      ELSE LET locationOfNode == getRemovalPoint(rt, value)
           IN  IF locationOfNode = Null
                 THEN [root |-> rt, res |-> Null]
                 ELSE LET removalNode == locationOfNode.v[1]
                          removalBranch == locationOfNode.v[2]
                      IN  [root |-> setBranch(rt, removalNode.v,
                                              removalBranch, Null),
                           res |-> removalNode]

BT_insert(value) ==
  /\ btFrame
  /\ bstSize(btRoot) < MaxBSTNodes
  /\ btRoot' = btInsert(btRoot, value)
  /\ btCall' = [op |-> "insert", args |-> <<value>>, res |-> This]

BT_get(value) ==
  /\ btFrame
  /\ btRoot' = btRoot
  /\ btCall' = [op |-> "get", args |-> <<value>>, res |-> bstGet(btRoot, value)]

BT_remove(value) ==
  /\ btFrame
  /\ LET done == btRemove(btRoot, value)
     IN  /\ btRoot' = done.root
         /\ btCall' = [op |-> "remove", args |-> <<value>>, res |-> done.res]

BT_removeAll ==
  /\ btFrame
  /\ btRoot' = Null
  /\ btCall' = [op |-> "removeAll", args |-> <<>>, res |-> This]

BTInit ==
  /\ btRoot = Null
  /\ btCall = [op |-> "constructor", args |-> <<>>, res |-> This]

BTNext ==
  \/ \E value \in BSTValues : BT_insert(value)
  \/ \E value \in BSTValues : BT_get(value)
  \/ \E value \in BSTValues : BT_remove(value)
  \/ BT_removeAll

---------------------------------------------------------------------------
(* Tree (src/data-structures/Tree.js).  A Node is [value, children], the   *)
(* children an array of Nodes in the order of their insertion; a reference *)
(* to a Node is Obj(path), the 1-based child positions that lead to it     *)
(* from the root at the time of the call.                                  *)

\* The Tree holds at most MaxTreeNodes Nodes.
MaxTreeNodes == 4
\* Values stored in the Tree are the integers 0 .. MaxTreeValue.
MaxTreeValue == 1

TreeValues == 0 .. MaxTreeValue

NewTreeNode(value) == [value |-> value, children |-> <<>>]

\* The Node the path leads to.
RECURSIVE TreeNodeAt(_, _)
TreeNodeAt(rt, path) ==
  IF path = <<>>
    THEN rt
    ELSE TreeNodeAt(rt.children[Head(path)], Tail(path))

\* The tree after the children of the Node the path leads to are replaced.
RECURSIVE setChildren(_, _, _)
setChildren(rt, path, children) ==
  IF path = <<>>
    THEN [rt EXCEPT !.children = children]
    ELSE [rt EXCEPT !.children[Head(path)] =
            setChildren(rt.children[Head(path)], Tail(path), children)]

RECURSIVE treeSize(_)
treeSize(node) ==
  LET RECURSIVE Sum(_)
      Sum(k) == IF k = 0 THEN 0
                ELSE treeSize(node.children[k]) + Sum(k - 1)
  IN  IF node = Null THEN 0 ELSE 1 + Sum(Len(node.children))

\* The references a caller can hold: one per Node of the tree.
RECURSIVE TreePaths(_)
TreePaths(node) ==
  IF node = Null
    THEN {}
    ELSE {<<>>} \cup UNION {{<<k>> \o path : path \in TreePaths(node.children[k])} :
                            k \in 1 .. Len(node.children)}

\* Node.insert(value) on the Node the path leads to: this.children.push(node).
nodeInsert(rt, path, value) ==
  setChildren(rt, path,
              Append(TreeNodeAt(rt, path).children, NewTreeNode(value)))

\* for (const child of currentNode.children) { queue.add(child) }, from the
\* k-th child on.
RECURSIVE addChildren(_, _, _, _)
addChildren(queue, currentNode, count, k) ==
  IF k > count
    THEN queue
    ELSE addChildren(Queue_add(queue, Obj(Append(currentNode.v, k))),
                     currentNode, count, k + 1)

\* The loop of get.
RECURSIVE treeGetLoop(_, _, _)
treeGetLoop(rt, queue, value) ==
  IF Queue_isEmpty(queue)
    THEN Null
    ELSE LET currentNode == Queue_removeItem(queue)
             rest == Queue_removeRest(queue)
             node == TreeNodeAt(rt, currentNode.v)
         IN  IF node.value = value
               THEN currentNode
               ELSE treeGetLoop(rt,
                                addChildren(rest, currentNode,
                                            Len(node.children), 1),
                                value)

treeGet(rt, value) ==
  IF rt = Null
    THEN Null
    ELSE treeGetLoop(rt, Queue_add(<<>>, Obj(<<>>)), value)

\* The loop of #getParentOf: the first dequeued Node with a child holding
\* the value.
RECURSIVE getParentOfLoop(_, _, _)
getParentOfLoop(rt, queue, value) ==
  IF Queue_isEmpty(queue)
    THEN Null
    ELSE LET currentNode == Queue_removeItem(queue)
             rest == Queue_removeRest(queue)
             node == TreeNodeAt(rt, currentNode.v)
         IN  IF \E k \in 1 .. Len(node.children) :
                  node.children[k].value = value
               THEN currentNode
               ELSE getParentOfLoop(rt,
                                    addChildren(rest, currentNode,
                                                Len(node.children), 1),
                                    value)

getParentOf(rt, value) ==
  IF rt = Null
    THEN Null
    ELSE IF rt.value = value
      THEN Null
      ELSE getParentOfLoop(rt, Queue_add(<<>>, Obj(<<>>)), value)

\* A search that gives the index of the last child holding the value.
findLastIndex(children, value) ==
  IF \E k \in 1 .. Len(children) : children[k].value = value
    THEN (CHOOSE k \in 1 .. Len(children) :
            /\ children[k].value = value
            /\ \A j \in k + 1 .. Len(children) : children[j].value # value) - 1
    ELSE -1

\* children.findIndex((element) => element.value === value), 0-based or -1.
findIndex(children, value) ==
  IF \E k \in 1 .. Len(children) : children[k].value = value
    THEN (CHOOSE k \in 1 .. Len(children) :
            /\ children[k].value = value
            /\ \A j \in 1 .. k - 1 : children[j].value # value) - 1
    ELSE -1

\* remove(value): [root, res]; the call returns the root Node, null, or the
\* array that splice returns.
treeRemove(rt, value) ==
  IF rt = Null
    THEN [root |-> rt, res |-> Null]
    ELSE IF rt.value = value
      THEN [root |-> Null, res |-> Obj(<<>>)]
      ELSE LET parentNode == getParentOf(rt, value)
           IN  IF ~Truthy(parentNode)
                 THEN [root |-> rt, res |-> Null]
                 ELSE LET children == TreeNodeAt(rt, parentNode.v).children
                          childIndex == findIndex(children, value)
                      IN  [root |-> setChildren(rt, parentNode.v,
                                                Splice1(children, childIndex)),
                           res |-> Arr(<<Obj(Append(parentNode.v,
                                                    childIndex + 1))>>)]

Tree_insert(value) ==
  /\ treeFrame
  /\ treeSize(treeRoot) < MaxTreeNodes
  /\ treeRoot' = IF treeRoot = Null
                   THEN NewTreeNode(value)
                   ELSE nodeInsert(treeRoot, <<>>, value)
  /\ treeCall' = [op |-> "insert", args |-> <<value>>, res |-> This]

\* node.insert(value) on a Node of the tree the caller holds, as in
\* tree.get(7).insert(12): the call returns that Node.
Node_insert(path, value) ==
  /\ treeFrame
  /\ treeSize(treeRoot) < MaxTreeNodes
  /\ treeRoot' = nodeInsert(treeRoot, path, value)
  /\ treeCall' = [op |-> "Node.insert", args |-> <<value>>, res |-> Obj(path)]

Tree_get(value) ==
  /\ treeFrame
  /\ treeRoot' = treeRoot
  /\ treeCall' = [op |-> "get", args |-> <<value>>,
                  res |-> treeGet(treeRoot, value)]

Tree_remove(value) ==
  /\ treeFrame
  /\ LET done == treeRemove(treeRoot, value)
     IN  /\ treeRoot' = done.root
         /\ treeCall' = [op |-> "remove", args |-> <<value>>, res |-> done.res]

Tree_removeAll ==
  /\ treeFrame
  /\ treeRoot' = Null
  /\ treeCall' = [op |-> "removeAll", args |-> <<>>, res |-> This]

TreeInit ==
  /\ treeRoot = Null
  /\ treeCall = [op |-> "constructor", args |-> <<>>, res |-> This]

TreeNext ==
  \/ \E value \in TreeValues : Tree_insert(value)
  \/ \E value \in TreeValues :
       \E path \in TreePaths(treeRoot) : Node_insert(path, value)
  \/ \E value \in TreeValues : Tree_get(value)
  \/ \E value \in TreeValues : Tree_remove(value)
  \/ Tree_removeAll

----------------------------------------------------------------------------
(* HashTable (src/unnamed/part_001) with its default hash function, and     *)
(* sumDigits (src/data-structures/utilities/sumDigits.js; the copy in       *)
(* src/unnamed/part_000 is the same code with the parameter named value).   *)
(* this.hashTable is an array of this.capacity slots, each undefined or a   *)
(* bucket, an array of the values set. A call is modelled by steps: it      *)
(* begins, the loop of sumDigits runs one iteration at a time, and when     *)
(* the loop is left the operation that asked for the hash code completes.   *)
(* Values are integers; customHashFunction is null.                         *)

MaxNegativeKey == 2
MaxKey == 12
HashKeys == -MaxNegativeKey .. MaxKey

\* The capacity the table is constructed with.
HashCapacity == 3

\* No more than this many values are in the table at a time.
MaxHashValues == 2

\* sum is a double: it stops changing where adding -1 rounds back to the
\* same number. The model has that floor at -MaxSumBelowZero.
MaxSumBelowZero == 4

\* JavaScript's %: the remainder has the sign of the dividend.
JsRemainder(dividend, divisor) ==
  IF dividend >= 0
    THEN dividend % divisor
    ELSE -((-dividend) % divisor)

AtLeast(number, floor) == IF number < floor THEN floor ELSE number

\* How many values the buckets hold.
RECURSIVE StoredCount(_)
StoredCount(table) ==
  IF Len(table) = 0
    THEN 0
    ELSE (IF Head(table).t = "array" THEN Len(Head(table).v) ELSE 0)
           + StoredCount(Tail(table))

calculateBucketIndex(hashCode, cap) == JsRemainder(hashCode, cap)

\* linearSearch of src/unnamed/part_000: the index of the first element that
\* is the sought value, or null.
linearSearch(array, soughtValue) ==
  IF \E i \in 1 .. Len(array) : array[i] = soughtValue
    THEN Num((CHOOSE i \in 1 .. Len(array) :
                /\ array[i] = soughtValue
                /\ \A j \in 1 .. i - 1 : array[j] # soughtValue) - 1)
    ELSE Null

\* set, get and remove once the bucket index is known: the table they leave
\* and what they return.
HashTable_set(table, bucketIndex, value) ==
  [table |-> IF table[bucketIndex + 1].t = "undefined"
               THEN [table EXCEPT ![bucketIndex + 1] = Arr(<<value>>)]
               ELSE [table EXCEPT ![bucketIndex + 1] =
                                    Arr(Append(@.v, value))],
   res |-> This]

HashTable_get(table, bucketIndex, value) ==
  [table |-> table,
   res |-> IF table[bucketIndex + 1].t = "undefined"
             THEN Null
             ELSE LET indexWithinABucket ==
                        linearSearch(table[bucketIndex + 1].v, value)
                  IN  IF indexWithinABucket.t = "null"
                        THEN Null
                        ELSE Arr(<<Num(bucketIndex), indexWithinABucket>>)]

HashTable_remove(table, bucketIndex, value) ==
  LET locationOfValue == HashTable_get(table, bucketIndex, value).res
  IN  IF locationOfValue.t = "null"
        THEN [table |-> table, res |-> Null]
        ELSE LET bucket == table[locationOfValue.v[1].v + 1].v
                 at == locationOfValue.v[2].v + 1
             IN  [table |-> [table EXCEPT ![locationOfValue.v[1].v + 1] =
                               Arr(SubSeq(bucket, 1, at - 1)
                                     \o SubSeq(bucket, at + 1, Len(bucket)))],
                  res |-> Num(value)]

\* A call begins: sumDigits is entered with the value, sum is 0.
hashCallBegins(op, value) ==
  /\ hashCall.res # Running
  /\ hashCall' = [op |-> op, args |-> <<Num(value)>>, res |-> Running]
  /\ givenNumber' = value
  /\ sum' = 0
  /\ UNCHANGED <<hashTable, capacity>>
  /\ hashFrame

sumDigits_call(value) == hashCallBegins("sumDigits", value)

HashTable_set_call(value) ==
  /\ StoredCount(hashTable) < MaxHashValues
  /\ hashCallBegins("set", value)

HashTable_get_call(value) == hashCallBegins("get", value)

HashTable_remove_call(value) == hashCallBegins("remove", value)

\* One pass through the body of `while (givenNumber)`.
sumDigits_iteration ==
  /\ hashCall.res = Running
  /\ givenNumber # 0
  /\ sum' = AtLeast(sum + JsRemainder(givenNumber, 10), -MaxSumBelowZero)
  /\ givenNumber' = givenNumber \div 10
  /\ UNCHANGED <<hashTable, capacity, hashCall>>
  /\ hashFrame

\* The loop is left with givenNumber 0: sumDigits returns sum, and the
\* operation that called it runs to its return.
sumDigits_return ==
  /\ hashCall.res = Running
  /\ givenNumber = 0
  /\ LET value == hashCall.args[1].v
         bucketIndex == calculateBucketIndex(sum, capacity)
         done == CASE hashCall.op = "sumDigits" ->
                        [table |-> hashTable, res |-> Num(sum)]
                   [] hashCall.op = "set" ->
                        HashTable_set(hashTable, bucketIndex, value)
                   [] hashCall.op = "get" ->
                        HashTable_get(hashTable, bucketIndex, value)
                   [] hashCall.op = "remove" ->
                        HashTable_remove(hashTable, bucketIndex, value)
     IN  /\ hashTable' = done.table
         /\ hashCall' = [hashCall EXCEPT !.res = done.res]
  /\ givenNumber' = 0
  /\ sum' = 0
  /\ UNCHANGED capacity
  /\ hashFrame

\* removeAll reads `capacity`, a name that no scope of the module declares:
\* the read throws a ReferenceError before anything is assigned.
HashTable_removeAll ==
  /\ hashCall.res # Running
  /\ hashCall' = [op |-> "removeAll", args |-> <<>>,
                  res |-> Thrown("capacity is not defined")]
  /\ UNCHANGED <<hashTable, capacity, givenNumber, sum>>
  /\ hashFrame

HashInit ==
  /\ hashTable = [i \in 1 .. HashCapacity |-> Undefined]
  /\ capacity = HashCapacity
  /\ hashCall = [op |-> "constructor", args |-> <<>>, res |-> This]
  /\ givenNumber = 0
  /\ sum = 0

HashNext ==
  \/ \E value \in HashKeys : sumDigits_call(value)
  \/ \E value \in HashKeys : HashTable_set_call(value)
  \/ \E value \in HashKeys : HashTable_get_call(value)
  \/ \E value \in HashKeys : HashTable_remove_call(value)
  \/ sumDigits_iteration
  \/ sumDigits_return
  \/ HashTable_removeAll

---------------------------------------------------------------------------
(* The specifications, one per class.                                      *)

Init ==
  /\ HeapInit
  /\ GraphInit
  /\ TrieInit
  /\ SLLInit
  /\ DLLInit
  /\ BSTInit
  /\ BTInit
  /\ TreeInit
  /\ QueueInit
  /\ PathInit
  /\ HashInit

SpecHeap == Init /\ [][HeapNext]_vars

SpecGraph == Init /\ [][GraphNext]_vars

SpecTrie == Init /\ [][TrieNext]_vars

SpecSLL == Init /\ [][SLLNext]_vars

SpecDLL == Init /\ [][DLLNext]_vars

SpecBST == Init /\ [][BSTNext]_vars

SpecBT == Init /\ [][BTNext]_vars

SpecTree == Init /\ [][TreeNext]_vars

SpecQueue == Init /\ [][QueueNext]_vars

\* Either of the two binary search trees, the other left as constructed.
SearchTreesNext ==
  \/ /\ btCall.op = "constructor"
     /\ BSTNext
  \/ /\ bstCall.op = "constructor"
     /\ BTNext

SpecSearchTrees == Init /\ [][SearchTreesNext]_vars

\* A path query that was begun runs on: nothing else is scheduled while a
\* call is on the stack, so each of its steps is taken when it is enabled.
SpecPath ==
  /\ Init
  /\ [][PathNext]_vars
  /\ WF_vars(hasPathDFS_step)
  /\ WF_vars(hasPathBFS_iteration)

\* A call of sumDigits or of the hash table that was begun runs on in the
\* same way: the loop takes its next iteration or is left.
SpecHash ==
  /\ Init
  /\ [][HashNext]_vars
  /\ WF_vars(sumDigits_iteration)
  /\ WF_vars(sumDigits_return)

\* The classes share nothing, and every operation leaves the objects of the
\* other classes alone: a program's calls on one object are a behaviour of
\* that object's class. AnyClassNext takes the operations of whichever class
\* the first call names, the objects of the other classes staying as
\* constructed.
OnlyConstructed(calls) == \A k \in 1 .. Len(calls) : calls[k].op = "constructor"

AnyClassNext ==
  \/ /\ OnlyConstructed(<<graphCall, trieCall, sllCall, dllCall, bstCall,
                          btCall, treeCall>>)
     /\ HeapNext
  \/ /\ OnlyConstructed(<<heapCall, trieCall, sllCall, dllCall, bstCall,
                          btCall, treeCall>>)
     /\ GraphNext
  \/ /\ OnlyConstructed(<<heapCall, graphCall, sllCall, dllCall, bstCall,
                          btCall, treeCall>>)
     /\ TrieNext
  \/ /\ OnlyConstructed(<<heapCall, graphCall, trieCall, dllCall, bstCall,
                          btCall, treeCall>>)
     /\ SLLNext
  \/ /\ OnlyConstructed(<<heapCall, graphCall, trieCall, sllCall, bstCall,
                          btCall, treeCall>>)
     /\ DLLNext
  \/ /\ OnlyConstructed(<<heapCall, graphCall, trieCall, sllCall, dllCall,
                          btCall, treeCall>>)
     /\ BSTNext
  \/ /\ OnlyConstructed(<<heapCall, graphCall, trieCall, sllCall, dllCall,
                          bstCall, treeCall>>)
     /\ BTNext
  \/ /\ OnlyConstructed(<<heapCall, graphCall, trieCall, sllCall, dllCall,
                          bstCall, btCall>>)
     /\ TreeNext

SpecAnyClass == Init /\ [][AnyClassNext]_vars

---------------------------------------------------------------------------
(* What the claims speak of.                                               *)

\* The least item of a non-empty array as a JavaScript value; null for an
\* empty array.
MinOrNull(its) ==
  IF Len(its) = 0
    THEN Null
    ELSE Num(CHOOSE m \in {its[k] : k \in 1 .. Len(its)} :
               \A k \in 1 .. Len(its) : m <= its[k])

\* How many times x occurs in the array.
Count(its, x) == Cardinality({k \in 1 .. Len(its) : its[k] = x})

\* The min-heap property of an array.
IsMinHeap(its) ==
  \A i \in 0 .. (Len(its) - 1) :
    /\ hasLeftChild(its, i) => At(its, i) <= getLeftChild(its, i)
    /\ hasRightChild(its, i) => At(its, i) <= getRightChild(its, i)

\* The ids of the Node objects reached from those of S along zero or more
\* adjacent references.
RECURSIVE ReachClosure(_, _)
ReachClosure(heap, S) ==
  LET step == S \cup UNION {{heap[id].adjacent[k].v :
                               k \in 1 .. Len(heap[id].adjacent)} : id \in S}
  IN  IF step = S THEN S ELSE ReachClosure(heap, step)

\* The destination vertex is reachable from the source vertex, both named by
\* value.
Reachable(ns, heap, source, destination) ==
  Graph_get(ns, heap, destination).v
    \in ReachClosure(heap, {Graph_get(ns, heap, source).v})

BothAreVertices(ns, heap, source, destination) ==
  /\ Truthy(Graph_get(ns, heap, source))
  /\ Truthy(Graph_get(ns, heap, destination))

\* Every adjacent entry of a vertex of the graph refers to a vertex of the
\* graph.
ReferentialIntegrity(ns, heap) ==
  \A k \in 1 .. Len(ns) :
    \A j \in 1 .. Len(heap[ns[k].v].adjacent) :
      Includes(ns, heap[ns[k].v].adjacent[j])

\* Some entry of the array of Node references has the value.
HasEntryWithValue(adjacentNodes, heap, value) ==
  \E k \in 1 .. Len(adjacentNodes) : heap[adjacentNodes[k].v].value = value

\* The array without its first entry that has the value.
WithoutFirstEntryWithValue(adjacentNodes, heap, value) ==
  LET first == CHOOSE k \in 1 .. Len(adjacentNodes) :
                 /\ heap[adjacentNodes[k].v].value = value
                 /\ \A j \in 1 .. (k - 1) :
                      heap[adjacentNodes[j].v].value # value
  IN  SubSeq(adjacentNodes, 1, first - 1)
        \o SubSeq(adjacentNodes, first + 1, Len(adjacentNodes))

\* The word is stored: contains(word, true).
Stored(rt, word) == contains(rt, word, TRUE)

\* The Nodes met from ref along the field (next or prev) of each, as ids, at
\* most fuel of them.
RECURSIVE Walk(_, _, _, _)
Walk(heap, ref, field, fuel) ==
  IF ref = Null \/ fuel = 0
    THEN <<>>
    ELSE <<ref.v>> \o Walk(heap, heap[ref.v][field], field, fuel - 1)

\* The walk from ref along the field meets null after at most fuel Nodes.
RECURSIVE ReachesNull(_, _, _, _)
ReachesNull(heap, ref, field, fuel) ==
  IF ref = Null
    THEN TRUE
    ELSE IF fuel = 0
      THEN FALSE
      ELSE ReachesNull(heap, heap[ref.v][field], field, fuel - 1)

\* The values of the Nodes with the given ids, in order.
ValuesOf(heap, ids) == [k \in 1 .. Len(ids) |-> heap[ids[k]].value]

Reverse(seq) == [k \in 1 .. Len(seq) |-> seq[Len(seq) + 1 - k]]

\* The position of the first entry equal to x, 0 when there is none.
FirstPosition(seq, x) ==
  IF \E k \in 1 .. Len(seq) : seq[k] = x
    THEN CHOOSE k \in 1 .. Len(seq) :
           seq[k] = x /\ \A j \in 1 .. (k - 1) : seq[j] # x
    ELSE 0

\* The sequence without its k-th entry; the sequence itself when k is 0.
WithoutPosition(seq, k) ==
  IF k = 0 THEN seq ELSE SubSeq(seq, 1, k - 1) \o SubSeq(seq, k + 1, Len(seq))

\* The Nodes of the lists from the head on, as ids.
SLLNodes(head, heap) == Walk(heap, head, "next", Len(heap))

DLLNodes(head, heap) == Walk(heap, head, "next", Len(heap))

\* The paths to the Nodes of a binary tree.
RECURSIVE BSTPaths(_)
BSTPaths(node) ==
  IF node = Null
    THEN {}
    ELSE {<<>>}
           \cup {<<"leftBranch">> \o path : path \in BSTPaths(node.leftBranch)}
           \cup {<<"rightBranch">> \o path : path \in BSTPaths(node.rightBranch)}

\* The values held in a binary tree.
BSTValuesIn(node) == {NodeAt(node, path).value : path \in BSTPaths(node)}

\* Every Node has only values <= its own on its left and only values > its
\* own on its right.
RECURSIVE BSTOrdered(_)
BSTOrdered(node) ==
  \/ node = Null
  \/ /\ \A v \in BSTValuesIn(node.leftBranch) : v <= node.value
     /\ \A v \in BSTValuesIn(node.rightBranch) : v > node.value
     /\ BSTOrdered(node.leftBranch)
     /\ BSTOrdered(node.rightBranch)

\* p is a prefix of q.
IsPrefix(p, q) == Len(p) <= Len(q) /\ SubSeq(q, 1, Len(p)) = p

\* The paths to the Nodes of the Tree that hold the value.
TreeHolders(rt, value) ==
  {path \in TreePaths(rt) : TreeNodeAt(rt, path).value = value}

\* Breadth-first order with children in stored order: a shallower Node comes
\* first, and of two Nodes of one depth the one whose path is smaller at the
\* first position where the two differ.
BreadthFirstBefore(p, q) ==
  \/ Len(p) < Len(q)
  \/ /\ Len(p) = Len(q)
     /\ \E k \in 1 .. Len(p) :
          /\ p[k] < q[k]
          /\ \A j \in 1 .. (k - 1) : p[j] = q[j]

\* The Tree without the Node the non-empty path leads to (and its subtree):
\* the Node is taken out of its parent's children, the others keep their
\* order.
RECURSIVE DetachAt(_, _)
DetachAt(rt, path) ==
  IF Len(path) = 1
    THEN [value |-> rt.value,
          children |-> WithoutPosition(rt.children, path[1])]
    ELSE [value |-> rt.value,
          children |-> [k \in 1 .. Len(rt.children) |->
                          IF k = path[1]
                            THEN DetachAt(rt.children[k], Tail(path))
                            ELSE rt.children[k]]]

\* The values of the vertices of the Graph, in the order of this.nodes.
VertexValuesOf(ns, heap) == [k \in 1 .. Len(ns) |-> heap[ns[k].v].value]


\* The entries of an array are pairwise different.
NoDuplicates(array) ==
  \A j, k \in 1 .. Len(array) : array[j] = array[k] => j = k


\* Every Node below the given one that has no children is terminating.
RECURSIVE LeavesTerminate(_)
LeavesTerminate(node) ==
  \A c \in DOMAIN node.children :
    /\ hasChildren(node.children[c]) \/ node.children[c].isTerminating
    /\ LeavesTerminate(node.children[c])


\* The path to the Node holding the value that is nearest the root.
TopmostHolder(rt, value) ==
  CHOOSE p \in BSTPaths(rt) :
    /\ NodeAt(rt, p).value = value
    /\ \A q \in BSTPaths(rt) : NodeAt(rt, q).value = value => Len(p) <= Len(q)

\* The binary tree without the subtree the path leads to.
RECURSIVE WithoutSubtree(_, _)
WithoutSubtree(rt, path) ==
  IF path = <<>>
    THEN Null
    ELSE [value |-> rt.value,
          leftBranch |-> IF path[1] = "leftBranch"
                           THEN WithoutSubtree(rt.leftBranch, Tail(path))
                           ELSE rt.leftBranch,
          rightBranch |-> IF path[1] = "rightBranch"
                            THEN WithoutSubtree(rt.rightBranch, Tail(path))
                            ELSE rt.rightBranch]

\* remove(value) took the tree from rt to next.
DetachesTopmostHolder(rt, next, value) ==
  next = IF value \in BSTValuesIn(rt)
           THEN WithoutSubtree(rt, TopmostHolder(rt, value))
           ELSE rt

---------------------------------------------------------------------------
(* The claims.                                                             *)

\* C1: in every state of the BinaryMinHeap between two calls, starting from
\* the empty heap, every index with a left child holds an item <= that
\* child, and every index with a right child holds an item <= that child.
C1_HeapPropertyHolds == IsMinHeap(items)

\* C2: after any sequence of insert and extractMin calls peek() returns the
\* least stored item (null when nothing is stored), and a call of
\* extractMin() returns the least item stored before it.
C2_PeekAndExtractMinGiveTheMinimum ==
  [][/\ peek(items') = MinOrNull(items')
     /\ BinaryMinHeap_extractMin => heapCall'.res = MinOrNull(items)]_vars

\* C3: extractMin() on a heap of n >= 1 items leaves the items it held
\* less one occurrence of the item it returns (so n - 1 items).
C3_ExtractMinRemovesOneItem ==
  [][(BinaryMinHeap_extractMin /\ Len(items) >= 1) =>
       /\ Len(items') = Len(items) - 1
       /\ \A x \in HeapItems :
            Count(items', x) =
              Count(items, x) - (IF heapCall'.res = Num(x) THEN 1 ELSE 0)]_vars

\* C4: hasPathDFS(source, destination), called with the values of two
\* vertices, returns true when the destination vertex is reachable from the
\* source vertex, false when it is not, and throws nothing.
C4_HasPathDFSDecidesReachability ==
  [][\A source, destination \in VertexValues :
       (/\ Graph_hasPathDFS(source, destination)
        /\ BothAreVertices(nodes, graphHeap, source, destination))
       => graphCall'.res =
            Bool(Reachable(nodes, graphHeap, source, destination))]_vars

\* C5: hasPathBFS(source, destination), called with the values of two
\* vertices, returns true when the destination vertex is reachable from the
\* source vertex and false when it is not.
C5_HasPathBFSDecidesReachability ==
  [][\A source, destination \in VertexValues :
       (/\ Graph_hasPathBFS(source, destination)
        /\ BothAreVertices(nodes, graphHeap, source, destination))
       => graphCall'.res =
            Bool(Reachable(nodes, graphHeap, source, destination))]_vars

\* C6: once removeVertex(value) has removed a vertex, no vertex left in the
\* graph has the removed vertex in its adjacency list; and after every
\* operation each adjacency entry refers to a vertex of the graph.
C6_NoDanglingAdjacency ==
  [][/\ \A value \in VertexValues :
          (/\ Graph_removeVertex(value)
           /\ Truthy(Graph_get(nodes, graphHeap, value)))
          => \A k \in 1 .. Len(nodes') :
               ~Includes(graphHeap'[nodes'[k].v].adjacent,
                         Graph_get(nodes, graphHeap, value))
     /\ ReferentialIntegrity(nodes', graphHeap')]_vars

\* C7: removeEdge(source, destination), when the source vertex has an
\* adjacency entry with the destination value, removes the first such entry
\* and leaves every other entry of every adjacency list as it was.
C7_RemoveEdgeRemovesFirstMatch ==
  [][\A source, destination \in VertexValues :
       (/\ Graph_removeEdge(source, destination)
        /\ Truthy(Graph_get(nodes, graphHeap, source))
        /\ HasEntryWithValue(
             graphHeap[Graph_get(nodes, graphHeap, source).v].adjacent,
             graphHeap, destination))
       => graphHeap' =
            [graphHeap EXCEPT
               ![Graph_get(nodes, graphHeap, source).v].adjacent =
                 WithoutFirstEntryWithValue(@, graphHeap, destination)]]_vars

\* C8: removeWord(word) of a non-empty stored word returns the trie and
\* throws nothing, whatever other words are stored.
C8_RemoveStoredWordNeverThrows ==
  [][\A word \in Words :
       (Trie_removeWord(word) /\ Len(word) > 0 /\ Stored(root, word))
       => trieCall'.res = This]_vars

\* C9: removeWord(word), whether it returns or throws, leaves every other
\* stored word stored.
C9_RemoveWordKeepsOtherWords ==
  [][trieCall'.op = "removeWord"
       => \A other \in Words \ {trieCall'.word} :
            Stored(root, other) => Stored(root', other)]_vars

\* C9, its case: removeWord of a stored word has thrown from the deletion
\* guard while another stored word shares the word's first character.
C9_Witness ==
  /\ trieCall.op = "removeWord"
  /\ trieCall.res = Thrown(ErrPartOfLongerSequence)
  /\ \E other \in Words \ {trieCall.word} :
       /\ Len(other) > 0
       /\ other[1] = trieCall.word[1]
       /\ Stored(root, other)

\* C10: removeWord(word) of a stored word of any length, the empty word
\* included, leaves contains(word, true) false.
C10_RemovedWordIsNotContained ==
  [][\A word \in Words :
       (Trie_removeWord(word) /\ Stored(root, word))
       => ~Stored(root', word)]_vars

\* C11: after addWord(w) the trie contains w both exactly and as a prefix, it
\* contains every prefix of w as a prefix, and every word stored before the
\* call is still stored.
C11_AddWordStoresWordAndPrefixes ==
  [][trieCall'.op = "addWord"
       => LET w == trieCall'.word
          IN  /\ contains(root', w, TRUE)
              /\ contains(root', w, FALSE)
              /\ \A n \in 0 .. Len(w) : contains(root', SubSeq(w, 1, n), FALSE)
              /\ \A other \in Words :
                   Stored(root, other) => Stored(root', other)]_vars

\* A word of full length has been added next to a stored word that shares
\* its first character and to one that does not.
C11_Witness ==
  /\ trieCall.op = "addWord"
  /\ Len(trieCall.word) = MaxWordLen
  /\ Stored(root, trieCall.word)
  /\ \E other \in Words \ {trieCall.word} :
       /\ Len(other) > 0
       /\ other[1] = trieCall.word[1]
       /\ Stored(root, other)
  /\ \E other \in Words :
       /\ Len(other) > 0
       /\ other[1] # trieCall.word[1]
       /\ Stored(root, other)

\* C12: a remove(v) on a DoublyLinkedList whose head holds v makes the former
\* head's successor the head, with its prev cleared (null when the list had
\* one Node), and the call does not throw.
C12_RemoveOfHeadCompletes ==
  [][(/\ dllCall'.op = "remove"
      /\ dllHead # Null
      /\ dllHeap[dllHead.v].value = dllCall'.args[1])
       => /\ dllHead' = dllHeap[dllHead.v].next
          /\ dllHead' # Null => dllHeap'[dllHead'.v].prev = Null
          /\ dllCall'.res.t # "throw"]_vars

\* C13: in every state of the DoublyLinkedList between two calls, the head's
\* prev is null, every Node met from the head is the prev of its next, and
\* the values read forward from the head are, reversed, the values read from
\* the last Node back along prev.
C13_LinksAreConsistent ==
  LET forward == DLLNodes(dllHead, dllHeap)
      backward == IF forward = <<>>
                    THEN <<>>
                    ELSE Walk(dllHeap, Obj(forward[Len(forward)]), "prev",
                              Len(dllHeap))
  IN  /\ dllHead # Null => dllHeap[dllHead.v].prev = Null
      /\ \A k \in 1 .. Len(forward) :
           \/ dllHeap[forward[k]].next = Null
           \/ dllHeap[dllHeap[forward[k]].next.v].prev = Obj(forward[k])
      /\ ReachesNull(dllHeap, dllHead, "next", Len(dllHeap))
      /\ Reverse(ValuesOf(dllHeap, forward)) = ValuesOf(dllHeap, backward)

\* A remove has returned, the list has at least two Nodes, and a Node that
\* was removed from between two others now lies outside the list, its former
\* neighbours linked to each other.
C13_Witness ==
  /\ dllCall.op = "remove"
  /\ dllCall.res = This
  /\ Len(DLLNodes(dllHead, dllHeap)) >= 2
  /\ \E id \in 1 .. Len(dllHeap) :
       /\ \A k \in 1 .. Len(DLLNodes(dllHead, dllHeap)) :
            DLLNodes(dllHead, dllHeap)[k] # id
       /\ dllHeap[id].prev # Null
       /\ dllHeap[id].next # Null
       /\ dllHeap[dllHeap[id].prev.v].next = dllHeap[id].next
       /\ dllHeap[dllHeap[id].next.v].prev = dllHeap[id].prev

\* C14: the SinglyLinkedList starts empty, and every call takes the values
\* read from the head along next to the values the abstract sequence has
\* after the same call: insert(v) prepends v, remove(v) deletes the first v
\* if there is one, removeAll empties it; the walk ends at null after as many
\* Nodes as there are values.
C14_ListRefinesSequence ==
  /\ SLLNodes(sllHead, sllHeap) = <<>>
  /\ [][LET before == ValuesOf(sllHeap, SLLNodes(sllHead, sllHeap))
            after == ValuesOf(sllHeap', SLLNodes(sllHead', sllHeap'))
        IN  /\ ReachesNull(sllHeap', sllHead', "next", Len(after))
            /\ sllCall'.op = "insert"
                 => after = <<sllCall'.args[1]>> \o before
            /\ sllCall'.op = "remove"
                 => after = WithoutPosition(
                              before,
                              FirstPosition(before, sllCall'.args[1]))
            /\ sllCall'.op = "removeAll" => after = <<>>]_vars

\* A remove has taken a value out of a list that still holds three values,
\* two of them equal.
C14_Witness ==
  LET values == ValuesOf(sllHeap, SLLNodes(sllHead, sllHeap))
  IN  /\ sllCall.op = "remove"
      /\ sllCall.res # Null
      /\ Len(values) = 3
      /\ \E j, k \in 1 .. 3 : j # k /\ values[j] = values[k]

\* C15: remove(v) on a SinglyLinkedList returns the Node nearest the head
\* that holds v and takes that Node, and no other, out of the list; when the
\* list is empty or no Node holds v it returns null and changes nothing.
C15_RemoveUnlinksFirstHolder ==
  [][sllCall'.op = "remove"
       => LET listed == SLLNodes(sllHead, sllHeap)
              first == FirstPosition(ValuesOf(sllHeap, listed),
                                     sllCall'.args[1])
          IN  IF first = 0
                THEN /\ sllCall'.res = Null
                     /\ sllHead' = sllHead
                     /\ sllHeap' = sllHeap
                ELSE /\ sllCall'.res = Obj(listed[first])
                     /\ SLLNodes(sllHead', sllHeap')
                          = WithoutPosition(listed, first)
                     /\ \A id \in 1 .. Len(sllHeap) :
                          sllHeap'[id].value = sllHeap[id].value]_vars

\* A remove has returned a Node that was not the head, and a Node behind it
\* that holds the same value is still in the list.
C15_Witness ==
  /\ sllCall.op = "remove"
  /\ sllCall.res.t = "object"
  /\ sllHeap[sllCall.res.v].next # sllHead
  /\ sllHeap[sllCall.res.v].next # Null
  /\ \E k \in 1 .. Len(SLLNodes(sllHead, sllHeap)) :
       /\ k > 1
       /\ sllHeap[SLLNodes(sllHead, sllHeap)[k]].value = sllCall.args[1]

\* C16: a remove(v) on a non-empty BinarySearchTree in which no Node holds v
\* returns null, throws nothing and leaves the tree unchanged.
C16_RemoveOfAbsentValueReturnsNull ==
  [][(/\ bstCall'.op = "remove"
      /\ bstRoot # Null
      /\ bstCall'.args[1] \notin BSTValuesIn(bstRoot))
       => /\ bstCall'.res = Null
          /\ bstRoot' = bstRoot]_vars

\* C17: a remove(v) on a BinaryTree in which some Node holds v returns a Node
\* that holds v, and the tree afterwards is the tree without the subtree of
\* that Node.
C17_RemoveReturnsDetachedNode ==
  [][(/\ btCall'.op = "remove"
      /\ btCall'.args[1] \in BSTValuesIn(btRoot))
       => /\ btCall'.res.t = "object"
          /\ btCall'.res.v \in BSTPaths(btRoot)
          /\ NodeAt(btRoot, btCall'.res.v).value = btCall'.args[1]
          /\ btRoot' =
               IF btCall'.res.v = <<>>
                 THEN Null
                 ELSE setBranch(btRoot,
                                SubSeq(btCall'.res.v, 1,
                                       Len(btCall'.res.v) - 1),
                                btCall'.res.v[Len(btCall'.res.v)],
                                Null)]_vars

\* C18: in every state of the BinarySearchTree between two calls, every Node
\* has only values <= its own in its left subtree and only values > its own
\* in its right subtree; and an insert(v) puts the one new Node into the
\* left subtree of every Node that already holds v.
C18_TreeIsOrderedAndEqualsGoLeft ==
  /\ []BSTOrdered(bstRoot)
  /\ [][bstCall'.op = "insert"
          => \E q \in BSTPaths(bstRoot') :
               /\ BSTPaths(bstRoot') = BSTPaths(bstRoot) \cup {q}
               /\ q \notin BSTPaths(bstRoot)
               /\ NodeAt(bstRoot', q).value = bstCall'.args[1]
               /\ \A p \in BSTPaths(bstRoot) :
                    /\ NodeAt(bstRoot', p).value = NodeAt(bstRoot, p).value
                    /\ NodeAt(bstRoot, p).value = bstCall'.args[1]
                         => IsPrefix(Append(p, "leftBranch"), q)]_vars

\* An insert has filled the tree, which holds a value twice, the second
\* time in the left branch of the first, and has a Node with a right branch.
C18_Witness ==
  /\ bstCall.op = "insert"
  /\ bstSize(bstRoot) = MaxBSTNodes
  /\ \E p \in BSTPaths(bstRoot) :
       /\ NodeAt(bstRoot, p).value = bstCall.args[1]
       /\ NodeAt(bstRoot, p).leftBranch # Null
       /\ NodeAt(bstRoot, p).leftBranch.value = bstCall.args[1]
  /\ \E p \in BSTPaths(bstRoot) : NodeAt(bstRoot, p).rightBranch # Null

\* C19: get(v) on a BinarySearchTree returns null when no Node holds v, and
\* otherwise a Node that holds v: the last Node of the chain of Nodes
\* holding v, each the left branch of the one before, that starts at the
\* first Node holding v on the way down from the root.
C19_GetFindsDeepestOfChain ==
  [][bstCall'.op = "get"
       => LET v == bstCall'.args[1]
              res == bstCall'.res
          IN  IF v \notin BSTValuesIn(bstRoot)
                THEN res = Null
                ELSE /\ res.t = "object"
                     /\ res.v \in BSTPaths(bstRoot)
                     /\ NodeAt(bstRoot, res.v).value = v
                     /\ OptionalValue(NodeAt(bstRoot, res.v).leftBranch)
                          # Num(v)
                     /\ \A n \in 0 .. Len(res.v) - 1 :
                          NodeAt(bstRoot, SubSeq(res.v, 1, n)).value = v
                            => \A m \in n + 1 .. Len(res.v) :
                                 /\ res.v[m] = "leftBranch"
                                 /\ NodeAt(bstRoot,
                                           SubSeq(res.v, 1, m)).value = v]_vars

\* A get has returned a Node two or more branches below the root whose
\* parent holds the same value, under a root that holds another value.
C19_Witness ==
  /\ bstCall.op = "get"
  /\ bstCall.res.t = "object"
  /\ Len(bstCall.res.v) >= 2
  /\ NodeAt(bstRoot, SubSeq(bstCall.res.v, 1, Len(bstCall.res.v) - 1)).value
       = bstCall.args[1]
  /\ bstRoot.value # bstCall.args[1]

\* C20: get(v) on a Tree returns null when no Node holds v, and otherwise the
\* Node holding v that comes first in breadth-first order with children in
\* stored order: none holding v is shallower, and none of the same depth
\* comes before it.
C20_GetReturnsFirstInBreadthFirstOrder ==
  [][treeCall'.op = "get"
       => LET holders == TreeHolders(treeRoot, treeCall'.args[1])
              res == treeCall'.res
          IN  IF holders = {}
                THEN res = Null
                ELSE /\ res.t = "object"
                     /\ res.v \in holders
                     /\ \A q \in holders \ {res.v} :
                          /\ Len(res.v) <= Len(q)
                          /\ BreadthFirstBefore(res.v, q)]_vars

\* A get has returned a Node below the root while a deeper Node under an
\* earlier child of the root holds the same value.
C20_Witness ==
  /\ treeCall.op = "get"
  /\ treeCall.res.t = "object"
  /\ Len(treeCall.res.v) >= 1
  /\ \E q \in TreeHolders(treeRoot, treeCall.args[1]) :
       /\ Len(q) > Len(treeCall.res.v)
       /\ q[1] < treeCall.res.v[1]

\* C21: remove(v) on a Tree detaches the Node that get(v) returns on the tree
\* before the call: the tree becomes empty when that Node is the root,
\* otherwise that Node and its subtree leave their parent's children and
\* nothing else changes; when no Node holds v the call returns null and the
\* tree is unchanged.
C21_RemoveDetachesWhatGetReturns ==
  [][treeCall'.op = "remove"
       => LET found == treeGet(treeRoot, treeCall'.args[1])
          IN  IF found = Null
                THEN /\ treeCall'.res = Null
                     /\ treeRoot' = treeRoot
                ELSE IF found.v = <<>>
                  THEN treeRoot' = Null
                  ELSE treeRoot' = DetachAt(treeRoot, found.v)]_vars

\* A remove has taken out a grandchild of the root: its parent keeps another
\* child, and the value is still held elsewhere in the tree.
C21_Witness ==
  /\ treeCall.op = "remove"
  /\ treeCall.res.t = "array"
  /\ Len(treeCall.res.v[1].v) = 2
  /\ Len(treeRoot.children[treeCall.res.v[1].v[1]].children) >= 1
  /\ TreeHolders(treeRoot, treeCall.args[1]) # {}

\* C22: a removeAll() on a SinglyLinkedList, DoublyLinkedList,
\* BinarySearchTree (either variant), Tree, Graph, Trie or BinaryMinHeap in
\* any reachable state returns the object, without throwing, in the state of
\* a newly constructed one: every get and peek gives null, contains(w, true)
\* is false for every w; and a removeAll() that follows a removeAll()
\* changes nothing.
C22_RemoveAllGivesTheConstructedState ==
  [][/\ heapCall'.op = "removeAll"
          => /\ heapCall'.res = This
             /\ items' = <<>>
             /\ peek(items') = Null
     /\ graphCall'.op = "removeAll"
          => /\ graphCall'.res = This
             /\ nodes' = <<>>
             /\ \A value \in VertexValues :
                  Graph_get(nodes', graphHeap', value) = Null
     /\ trieCall'.op = "removeAll"
          => /\ trieCall'.res = This
             /\ root' = NewTrieNode
             /\ \A word \in Words : ~contains(root', word, TRUE)
     /\ sllCall'.op = "removeAll"
          => /\ sllCall'.res = This
             /\ sllHead' = Null
     /\ dllCall'.op = "removeAll"
          => /\ dllCall'.res = This
             /\ dllHead' = Null
             /\ \A value \in ListValues :
                  DLL_get(dllHead', dllHeap', value) = Null
     /\ bstCall'.op = "removeAll"
          => /\ bstCall'.res = This
             /\ bstRoot' = Null
             /\ \A value \in BSTValues : bstGet(bstRoot', value) = Null
     /\ btCall'.op = "removeAll"
          => /\ btCall'.res = This
             /\ btRoot' = Null
             /\ \A value \in BSTValues : bstGet(btRoot', value) = Null
     /\ treeCall'.op = "removeAll"
          => /\ treeCall'.res = This
             /\ treeRoot' = Null
             /\ \A value \in TreeValues : treeGet(treeRoot', value) = Null
     /\ (\E call \in {heapCall, graphCall, trieCall, sllCall, dllCall,
                      bstCall, btCall, treeCall} : call.op = "removeAll")
          /\ (\E call \in {heapCall', graphCall', trieCall', sllCall',
                           dllCall', bstCall', btCall', treeCall'} :
                call.op = "removeAll")
          => vars' = vars]_vars

\* A removeAll has returned on one of the objects.
C22_Witness ==
  /\ \E call \in {heapCall, graphCall, trieCall, sllCall, dllCall, bstCall,
                  btCall, treeCall} : call.op = "removeAll"
  /\ items = <<>>
  /\ nodes = <<>>
  /\ root = NewTrieNode
  /\ sllHead = Null
  /\ dllHead = Null
  /\ bstRoot = Null
  /\ btRoot = Null
  /\ treeRoot = Null

\* C23: addEdge(source, destination) throws when no vertex holds source or
\* none holds destination, and then changes no vertex and no adjacency list;
\* otherwise it returns after appending one reference to the first vertex
\* holding destination to the adjacency list of the first vertex holding
\* source, whether or not that list already has such a reference, and
\* changes nothing else.
C23_AddEdgeAppendsOrThrows ==
  [][\A source, destination \in VertexValues :
       graphCall'.op = "addEdge" /\ Graph_addEdge(source, destination)
         => LET values == VertexValuesOf(nodes, graphHeap)
                from == FirstPosition(values, source)
                to == FirstPosition(values, destination)
            IN  IF from = 0 \/ to = 0
                  THEN /\ graphCall'.res.t = "throw"
                       /\ nodes' = nodes
                       /\ graphHeap' = graphHeap
                  ELSE /\ graphCall'.res = This
                       /\ nodes' = nodes
                       /\ graphHeap' =
                            [id \in 1 .. Len(graphHeap) |->
                               IF id = nodes[from].v
                                 THEN [value |-> graphHeap[id].value,
                                       adjacent |->
                                         graphHeap[id].adjacent
                                           \o <<nodes[to]>>]
                                 ELSE graphHeap[id]]]_vars

\* An addEdge has returned on a Graph that has two vertices with one value
\* and a vertex whose adjacency list holds the same reference twice.
C23_Witness ==
  /\ graphCall.op = "addEdge"
  /\ graphCall.res = This
  /\ \E j, k \in 1 .. Len(nodes) :
       j # k /\ graphHeap[nodes[j].v].value = graphHeap[nodes[k].v].value
  /\ \E id \in 1 .. Len(graphHeap) :
       /\ Len(graphHeap[id].adjacent) = 2
       /\ graphHeap[id].adjacent[1] = graphHeap[id].adjacent[2]

\* C24: removeWord(w) for a non-empty word w that is not stored, because a
\* character of w has no child on the way or because the Node w leads to is
\* not terminating, throws and leaves the trie as it was.
C24_RemoveOfUnstoredWordChangesNothing ==
  [][(/\ trieCall'.op = "removeWord"
      /\ Len(trieCall'.word) > 0
      /\ ~Stored(root, trieCall'.word))
       => /\ trieCall'.res.t = "throw"
          /\ root' = root]_vars

\* A removeWord of a one-character word has thrown because the word's Node
\* is not terminating, in a trie that stores a longer word through that Node
\* and a word that starts with another character.
C24_Witness ==
  /\ trieCall.op = "removeWord"
  /\ trieCall.res = Thrown(ErrNotMatchedExactly)
  /\ Len(trieCall.word) = 1
  /\ ~Stored(root, trieCall.word)
  /\ \E other \in Words :
       Len(other) = 2 /\ other[1] = trieCall.word[1] /\ Stored(root, other)
  /\ \E other \in Words :
       Len(other) > 0 /\ other[1] # trieCall.word[1] /\ Stored(root, other)


(***************************************************************************)
(* C25. Queue is first-in first-out. Counting from the construction or the *)
(* last removeAll: the k-th remove() that returns a value returns the k-th *)
(* value added; isEmpty() is true exactly when as many removes returned a  *)
(* value as there were adds; peek() changes nothing and, on a Queue that   *)
(* holds an item, returns what the next remove() returns. On an empty      *)
(* Queue peek() returns null, while remove() returns undefined.            *)
(***************************************************************************)
RemoveReturnsInOrderOfAdd ==
  queueCall'.op = "remove" =>
    IF Len(queueReturned) < Len(queueAdded)
      THEN /\ queueCall'.res = queueAdded[Len(queueReturned) + 1]
           /\ queueReturned' = Append(queueReturned, queueCall'.res)
      ELSE /\ queueCall'.res = Undefined
           /\ queueReturned' = queueReturned

IsEmptyComparesAddsAndRemoves ==
  queueCall'.op = "isEmpty" =>
    /\ queueCall'.res = Bool(Len(queueAdded) = Len(queueReturned))
    /\ queueItems' = queueItems

C25_QueueIsFirstInFirstOut ==
  [][/\ RemoveReturnsInOrderOfAdd
     /\ IsEmptyComparesAddsAndRemoves
     /\ queueCall'.op = "peek" =>
          /\ queueItems' = queueItems
          /\ queueCall'.res = IF Queue_isEmpty(queueItems)
                                THEN Null
                                ELSE Queue_removeItem(queueItems)]_vars

\* Two values were added, 0 then 1, then a third, and two removes have
\* returned 0 and 1, leaving the third in the Queue.
C25_Witness ==
  /\ queueCall.op = "remove"
  /\ queueReturned = <<Num(0), Num(1)>>
  /\ Len(queueAdded) = 3
  /\ Len(queueItems) = 1

\* C25 as stated: peek() returns what the next remove() would return, on
\* every Queue, the empty one included.
C25_PeekReturnsWhatRemoveWould ==
  [][/\ RemoveReturnsInOrderOfAdd
     /\ IsEmptyComparesAddsAndRemoves
     /\ queueCall'.op = "peek" =>
          /\ queueItems' = queueItems
          /\ queueCall'.res = Queue_removeItem(queueItems)]_vars


\* C26: hasPathDFS(source, destination) and hasPathBFS(source, destination),
\* whatever they return or throw, leave the vertex list, every vertex's value
\* and every adjacency list as they were before the call.
C26_PathQueriesChangeNothing ==
  [][graphCall'.op \in {"hasPathDFS", "hasPathBFS"} =>
       /\ nodes' = nodes
       /\ graphHeap' = graphHeap]_vars


(***************************************************************************)
(* C27. A call of hasPathDFS or of hasPathBFS that was begun ends, by      *)
(* returning or by throwing, on every graph that addVertex and addEdge can *)
(* build, those with cycles and self-loops included; and no value enters a *)
(* visitedNodes collection twice, a vertex being expanded (its adjacent    *)
(* vertices taken up) only in the step that pushes its value.              *)
(***************************************************************************)
C27_PathQueriesTerminate ==
  /\ (pathPc # "idle") ~> (pathPc = "idle")
  /\ [](/\ NoDuplicates(bfsVisited)
        /\ \A d \in 1 .. Len(dfsStack) : NoDuplicates(dfsStack[d].visitedNodes))

\* hasPathBFS is running on a vertex with an edge to itself: the vertex was
\* expanded, its value is in visitedNodes, and it is at the front of the
\* queue a second time.
C27_Witness ==
  /\ pathPc = "hasPathBFS"
  /\ bfsQueue # <<>>
  /\ Includes(graphHeap[bfsQueue[1].v].adjacent, bfsQueue[1])
  /\ Includes(bfsVisited, graphHeap[bfsQueue[1].v].value)


\* C28: on a heap built by insert calls alone, the items that successive
\* extractMin() calls return form a non-decreasing sequence.
C28_DrainIsSorted ==
  \A j, k \in 1 .. Len(heapDrain.returned) :
    j < k => heapDrain.returned[j] <= heapDrain.returned[k]


\* C29: insert(x) on a backing array that satisfies the min-heap property
\* leaves an array that satisfies it and holds the items held before and
\* one more x.
C29_InsertKeepsTheHeapProperty ==
  [][\A item \in HeapItems :
       (BinaryMinHeap_insert(item) /\ IsMinHeap(items)) =>
         /\ IsMinHeap(items')
         /\ \A x \in HeapItems :
              Count(items', x) = Count(items, x) + (IF x = item THEN 1 ELSE 0)]_vars

\* Four inserts and nothing else built the heap, the last of them into a
\* min-heap of three items (insert(-1) into [0, 1, 2], which sifts up two
\* levels, gives this array).
C29_Witness ==
  /\ heapCall.op = "insert"
  /\ heapDrain = NothingDrained
  /\ items = <<-1, 0, 2, 1>>


\* C30: after any sequence of addWord, removeWord (returning or throwing)
\* and removeAll calls, every Node other than the root that has no children
\* is terminating.
C30_NoDeadBranches == LeavesTerminate(root)

\* removeWord has thrown from the deletion guard after deleting the word's
\* last Node, and the trie holds the rest of the branch.
C30_Witness ==
  /\ trieCall.op = "removeWord"
  /\ trieCall.res = Thrown(ErrPartOfLongerSequence)
  /\ ~contains(root, trieCall.word, FALSE)
  /\ hasChildren(root)


(***************************************************************************)
(* C31. A Node leaves its parent's child mapping only when it has no       *)
(* children and is not terminating. Between the states before and after a  *)
(* call: addWord takes no Node away; a Node that removeWord(word) takes    *)
(* away lies on the path of word, was terminating before the call only if  *)
(* it ends word (whose flag the call unsets first), and every child it had *)
(* before the call was taken away by the same call before it. (removeAll   *)
(* changes no child mapping: it makes this.root a new Node.)               *)
(***************************************************************************)
C31_OnlyBareNodesAreDeleted ==
  [][trieCall'.op \in {"addWord", "removeWord"} =>
       \A p \in Words \ {<<>>} :
         (contains(root, p, FALSE) /\ ~contains(root', p, FALSE)) =>
           /\ trieCall'.op = "removeWord"
           /\ IsPrefix(p, trieCall'.word)
           /\ Stored(root, p) => p = trieCall'.word
           /\ \A c \in Alphabet :
                ~contains(root', Append(p, c), FALSE)]_vars

\* removeWord of a two-character word has returned after deleting both
\* Nodes of the word, the other branch of the root being left.
C31_Witness ==
  /\ trieCall.op = "removeWord"
  /\ trieCall.res = This
  /\ Len(trieCall.word) = 2
  /\ ~contains(root, <<trieCall.word[1]>>, FALSE)
  /\ hasChildren(root)


\* C32: in every state and for every string p, the empty string included,
\* contains(p, false) is true exactly when p is a prefix of a word that was
\* added and not removed since, and contains(p, true) is true exactly when
\* p is such a word.
C32_ContainsAnswersForTheStoredWords ==
  \A p \in Words :
    /\ contains(root, p, FALSE) <=> \E w \in trieWords : IsPrefix(p, w)
    /\ contains(root, p, TRUE) <=> p \in trieWords


\* C33: once remove(v) has returned, on the BinarySearchTree and on the
\* BinaryTree, no Node of the tree holds v and get(v) returns null.
C33_RemovedValueIsNotFound ==
  [][/\ (bstCall'.op = "remove" /\ bstCall'.res.t # "throw") =>
          /\ bstCall'.args[1] \notin BSTValuesIn(bstRoot')
          /\ bstGet(bstRoot', bstCall'.args[1]) = Null
     /\ btCall'.op = "remove" =>
          /\ btCall'.res.t # "throw"
          /\ btCall'.args[1] \notin BSTValuesIn(btRoot')
          /\ bstGet(btRoot', btCall'.args[1]) = Null]_vars

\* A remove on the BinarySearchTree has detached a subtree below the root
\* and left a tree of two or more Nodes.
C33_Witness ==
  /\ bstCall.op = "remove"
  /\ bstCall.res.t = "object"
  /\ Len(bstCall.res.v) >= 1
  /\ bstSize(bstRoot) >= 2


\* C34: remove(v), on the BinarySearchTree and on the BinaryTree, leaves the
\* tree without the subtree of the topmost Node holding v and with every
\* other Node as it was: the empty tree when the root holds v, else the tree
\* with one branch of that Node's parent set to null. When no Node holds v
\* the tree is as it was.
C34_RemoveDetachesOneSubtree ==
  [][/\ bstCall'.op = "remove" =>
          DetachesTopmostHolder(bstRoot, bstRoot', bstCall'.args[1])
     /\ btCall'.op = "remove" =>
          DetachesTopmostHolder(btRoot, btRoot', btCall'.args[1])]_vars

\* A remove on the BinaryTree has detached a subtree below the root and
\* left a tree of two or more Nodes.
C34_Witness ==
  /\ btCall.op = "remove"
  /\ btCall.res.t = "object"
  /\ btRoot # Null
  /\ btCall.args[1] # btRoot.value
  /\ bstSize(btRoot) >= 2


\* C35: remove(v) on a Tree in which a Node holds v returns a Node whose
\* value is v, whether that Node is the root or a descendant, and returns
\* null when no Node holds v.
C35_RemoveReturnsTheRemovedNode ==
  [][treeCall'.op = "remove"
       => IF TreeHolders(treeRoot, treeCall'.args[1]) = {}
            THEN treeCall'.res = Null
            ELSE /\ treeCall'.res.t = "object"
                 /\ treeCall'.res.v \in TreePaths(treeRoot)
                 /\ TreeNodeAt(treeRoot, treeCall'.res.v).value
                      = treeCall'.args[1]]_vars


\* C36: on a DoublyLinkedList of two or more Nodes, a remove(v) whose first
\* match from the head is not the head returns without throwing and leaves
\* the values read forward from the head as they were less the first v; a
\* remove(v) with no match leaves them as they were.
C36_RemoveAwayFromHeadRefinesSequence ==
  [][dllCall'.op = "remove"
       => LET before == ValuesOf(dllHeap, DLLNodes(dllHead, dllHeap))
              after == ValuesOf(dllHeap', DLLNodes(dllHead', dllHeap'))
              first == FirstPosition(before, dllCall'.args[1])
          IN  (Len(before) >= 2 /\ first # 1)
                => /\ dllCall'.res = This
                   /\ ReachesNull(dllHeap', dllHead', "next", Len(after))
                   /\ after = WithoutPosition(before, first)]_vars

\* A remove has taken a value out of the middle of a list of four Nodes:
\* the Node taken out has a prev and a next and holds the value, the head
\* holds the other value, and the value is still in the list.
C36_Witness ==
  LET values == ValuesOf(dllHeap, DLLNodes(dllHead, dllHeap))
  IN  /\ dllCall.op = "remove"
      /\ Len(values) = 3
      /\ values[1] # dllCall.args[1]
      /\ \E k \in 2 .. 3 : values[k] = dllCall.args[1]
      /\ \E id \in 1 .. Len(dllHeap) :
           /\ \A k \in 1 .. 3 : DLLNodes(dllHead, dllHeap)[k] # id
           /\ dllHeap[id].value = dllCall.args[1]
           /\ dllHeap[id].prev # Null
           /\ dllHeap[id].next # Null


\* C37: removeEdge(source, destination) throws when no vertex holds source,
\* and returns null when the first vertex holding source has no adjacency
\* entry with the value destination; removeVertex(value) returns null when no
\* vertex holds value. In each of the three cases the vertex list, the
\* vertices and their adjacency lists are as they were.
C37_RemovalsOfAbsentThingsChangeNothing ==
  [][/\ \A source, destination \in VertexValues :
          graphCall'.op = "removeEdge" /\ Graph_removeEdge(source, destination)
            => LET from == FirstPosition(VertexValuesOf(nodes, graphHeap),
                                         source)
               IN  IF from = 0
                     THEN /\ graphCall'.res.t = "throw"
                          /\ nodes' = nodes
                          /\ graphHeap' = graphHeap
                     ELSE ~HasEntryWithValue(graphHeap[nodes[from].v].adjacent,
                                             graphHeap, destination)
                            => /\ graphCall'.res = Null
                               /\ nodes' = nodes
                               /\ graphHeap' = graphHeap
     /\ \A value \in VertexValues :
          (/\ graphCall'.op = "removeVertex"
           /\ Graph_removeVertex(value)
           /\ FirstPosition(VertexValuesOf(nodes, graphHeap), value) = 0)
            => /\ graphCall'.res = Null
               /\ nodes' = nodes
               /\ graphHeap' = graphHeap]_vars

\* A removeEdge has returned null on a Graph of three vertices with two
\* edges.
C37_Witness ==
  /\ graphCall.op = "removeEdge"
  /\ graphCall.res = Null
  /\ Len(nodes) = 3
  /\ EdgeCount(graphHeap) = 2


\* The sum of the decimal digits of a natural number.
RECURSIVE DigitSum(_)
DigitSum(n) == IF n = 0 THEN 0 ELSE (n % 10) + DigitSum(n \div 10)

\* The values in the buckets of a table.
StoredValues(table) ==
  UNION {{table[i].v[k] : k \in 1 .. Len(table[i].v)} :
           i \in {j \in 1 .. Len(table) : table[j].t = "array"}}

\* What get(value) returns on a table of the given capacity.
GetOn(table, cap, value) ==
  HashTable_get(table, calculateBucketIndex(DigitSum(value), cap), value).res

\* A call that was begun with a natural number returns.
CallsWithNaturalsReturn ==
  (hashCall.res = Running /\ hashCall.args[1].v >= 0)
    ~> (hashCall.res # Running)

\* C38: every call of sumDigits, and every call of set, get and remove of a
\* HashTable with the default hash function, that was begun with an integer,
\* negative ones included, returns.
C38_HashingRunsToCompletion ==
  (hashCall.res = Running) ~> (hashCall.res # Running)


\* C39: removeAll() returns the table without throwing, leaves the capacity
\* as it was, and afterwards get(v) is null for every value v that was in
\* the table.
C39_RemoveAllEmptiesTheTable ==
  [][hashCall'.op = "removeAll"
       => /\ hashCall'.res = This
          /\ capacity' = capacity
          /\ \A value \in StoredValues(hashTable) :
               GetOn(hashTable', capacity', value) = Null]_vars

===========================================================================
